---- MODULE Spec2Model ----
(***************************************************************************)
(* Tool-orchestration and query-safety engine of dalgo_chat_dashboard:     *)
(*   agents/sql_guard.py                  SqlGuard.validate_sql            *)
(*   agents/enhanced_tool_orchestrator.py EnhancedToolOrchestrator         *)
(*   db/postgres.py                       PostgresExecutor, SchemaIndex    *)
(*                                                                         *)
(* Text.  A Python string is a sequence of tokens.  Tokens are the words   *)
(* and punctuation marks of the text; consecutive tokens are separated by  *)
(* one blank, except ";" which is attached to the token before it.  The    *)
(* token "NL" is a line break, the only white space that can stand at the  *)
(* start or the end of a text.  Every regular expression of the source is  *)
(* translated to the token pattern it matches on such texts.               *)
(***************************************************************************)
EXTENDS Integers, Sequences, FiniteSets, TLC

(***************************************************************************)
(* Generic sequence helpers.                                               *)
(***************************************************************************)
Range(s) == {s[i] : i \in 1..Len(s)}

Min(S) == CHOOSE x \in S : \A y \in S : x <= y

Drop(s, n) == SubSeq(s, n + 1, Len(s))

Take(s, n) == SubSeq(s, 1, n)

RECURSIVE SelectIn(_, _)
\* the elements of sequence s that lie in set S, in the order of s
SelectIn(s, S) ==
    IF s = <<>> THEN <<>>
    ELSE (IF Head(s) \in S THEN <<Head(s)>> ELSE <<>>) \o SelectIn(Tail(s), S)

(***************************************************************************)
(* config.py: application settings.                                        *)
(***************************************************************************)
default_limit == 500

max_limit == 2000

(***************************************************************************)
(* Character-level facts about the tokens used in the texts below.         *)
(***************************************************************************)
\* str.upper(): keywords are written in both cases; for every other token
\* the upper-cased form matches the same patterns as the token itself.
Upper(tok) ==
    CASE tok = "select" -> "SELECT"
      [] tok = "from"   -> "FROM"
      [] tok = "where"  -> "WHERE"
      [] tok = "limit"  -> "LIMIT"
      [] tok = "drop"   -> "DROP"
      [] tok = "delete" -> "DELETE"
      [] tok = "in"     -> "IN"
      [] tok = "join"   -> "JOIN"
      [] OTHER          -> tok

\* str.lower() on identifiers (table and column names)
Lower(tok) ==
    CASE tok = "PROD.T" -> "prod.t"
      [] tok = "A"      -> "a"
      [] tok = "B"      -> "b"
      [] OTHER          -> tok

LowerText(s) == [i \in 1..Len(s) |-> Lower(s[i])]

UpperText(s) == [i \in 1..Len(s) |-> Upper(s[i])]

\* tokens made of digits only (\d+), with int(...) of them
NumTokens == {"1", "10", "50", "100", "500", "2000", "2001", "5000"}

IntOf(tok) ==
    CASE tok = "1"    -> 1
      [] tok = "10"   -> 10
      [] tok = "50"   -> 50
      [] tok = "100"  -> 100
      [] tok = "500"  -> 500
      [] tok = "2000" -> 2000
      [] tok = "2001" -> 2001
      [] tok = "5000" -> 5000
      [] OTHER        -> 0

\* str(n) of a number, as in an f-string
StrOf(n) == CHOOSE tok \in NumTokens : IntOf(tok) = n

\* schema-qualified table names, [\w]+\.[\w]+ ; the only tokens with a "."
TableTokens ==
    {"prod.t", "PROD.T", "staging.t", "prod.u", "dev_x.t",
     "information_schema.tables", "airbyte_internal.t", "staging_x.t"}

SchemaOf(tok) ==
    CASE tok \in {"prod.t", "PROD.T", "prod.u"} -> "prod"
      [] tok = "staging.t"                      -> "staging"
      [] tok = "dev_x.t"                        -> "dev_x"
      [] tok = "information_schema.tables"      -> "information_schema"
      [] tok = "airbyte_internal.t"             -> "airbyte_internal"
      [] tok = "staging_x.t"                    -> "staging_x"
      [] OTHER                                  -> ""

\* identifiers without a dot, [\w]+ that are no keyword
IdentTokens == {"a", "b", "A", "B", "tbl", "x", "limit_x", "email", "row_count"}

\* single-quoted non-empty string literals, '[^']+'
LiteralTokens == {"'X'", "'Y'"}

\* tokens that contain the substring LIMIT once upper-cased
ContainsLimit(tok) == tok \in {"LIMIT", "limit", "limit_x"}

\* tokens whose upper-cased text ends with LIMIT (what LIMIT\s+ can follow)
EndsWithLimit(tok) == tok \in {"LIMIT", "limit"}

\* tokens that contain the substring WHERE once upper-cased
ContainsWhere(tok) == tok \in {"WHERE", "where"}

\* tokens that end with FROM in any case (what FROM\s+ can follow)
IsFrom(tok) == tok \in {"FROM", "from"}

(***************************************************************************)
(* agents/sql_guard.py                                                     *)
(***************************************************************************)
\* SqlGuard.forbidden_keywords, in a fixed iteration order
forbidden_keywords ==
    <<"INSERT", "UPDATE", "DELETE", "DROP", "ALTER", "CREATE", "TRUNCATE",
      "GRANT", "REVOKE", "COPY", "CALL", "EXECUTE", "EXEC", "PROCEDURE",
      "FUNCTION", "TRIGGER", "INDEX", "VIEW", "SEQUENCE", "SCHEMA",
      "DATABASE", "TABLE", "COLUMN", "CONSTRAINT", "FOREIGN", "PRIMARY",
      "UNIQUE", "CHECK", "DEFAULT", "SET", "COMMIT", "ROLLBACK", "SAVEPOINT">>

\* SqlGuard.pii_patterns: the words of each of the three patterns
pii_patterns ==
    <<{"name", "phone", "email", "address", "national_id", "id_number"},
      {"contact", "mobile", "telephone", "personal", "identification"},
      {"firstname", "lastname", "full_name", "participant_name", "survivor_name"}>>

\* str.strip() / str.rstrip(): white space at the ends of a text
RECURSIVE LStrip(_)
LStrip(s) == IF s # <<>> /\ Head(s) = "NL" THEN LStrip(Tail(s)) ELSE s

RECURSIVE RStrip(_)
RStrip(s) ==
    IF s # <<>> /\ s[Len(s)] = "NL" THEN RStrip(Take(s, Len(s) - 1)) ELSE s

Strip(s) == LStrip(RStrip(s))

\* str.rstrip(';'): trailing semicolons only, white space is kept
RECURSIVE RStripSemicolons(_)
RStripSemicolons(s) ==
    IF s # <<>> /\ s[Len(s)] = ";"
    THEN RStripSemicolons(Take(s, Len(s) - 1))
    ELSE s

RECURSIVE RemoveBlockComments(_)
\* re.sub(r'/\*.*?\*/', '', sql, flags=re.DOTALL): from each "/*" to the
\* first "*/" after it; an unclosed "/*" stays
RemoveBlockComments(s) ==
    LET opens == {i \in 1..Len(s) : s[i] = "/*"} IN
    IF opens = {} THEN s
    ELSE LET i == Min(opens)
             closes == {j \in (i + 1)..Len(s) : s[j] = "*/"}
         IN  IF closes = {} THEN s
             ELSE Take(s, i - 1) \o RemoveBlockComments(Drop(s, Min(closes)))

RECURSIVE RemoveLineComments(_)
\* re.sub(r'--.*', '', text): from each "--" to the end of its line
RemoveLineComments(s) ==
    LET starts == {i \in 1..Len(s) : s[i] = "--"} IN
    IF starts = {} THEN s
    ELSE LET i == Min(starts)
             ends == {j \in (i + 1)..Len(s) : s[j] = "NL"}
         IN  IF ends = {} THEN Take(s, i - 1)
             ELSE Take(s, i - 1) \o RemoveLineComments(Drop(s, Min(ends) - 1))

\* validate_sql lines 33-35
StripComments(sql) == RemoveLineComments(RemoveBlockComments(sql))

\* SqlGuard.sanitize_sql
sanitize_sql(sql) ==
    LET r1 == RStrip(sql)
        r2 == IF r1 # <<>> /\ r1[Len(r1)] = ";" THEN Take(r1, Len(r1) - 1) ELSE r1
        semis == {i \in 1..Len(r2) : r2[i] = ";"}
        r3 == IF semis # {} THEN Take(r2, Min(semis) - 1) ELSE r2
    IN  Strip(r3)

\* positions where re.search(r'LIMIT\s+(\d+)', text) can match: a token
\* ending in LIMIT, white space, a token of digits
LimitMatches(s) ==
    {i \in 1..Len(s) :
        /\ EndsWithLimit(s[i])
        /\ \E j \in (i + 1)..Len(s) :
              /\ s[j] \in NumTokens
              /\ \A k \in (i + 1)..(j - 1) : s[k] = "NL"}

\* the digits captured by the match that starts at position i
LimitValueAt(s, i) ==
    LET j == Min({k \in (i + 1)..Len(s) : s[k] # "NL"}) IN s[j]

Err(kind, arg) == [kind |-> kind, arg |-> arg]

\* the text that stands for Python's None where a text is optional
NoneText == <<"<None>">>

\* validate_sql line 39
StartsWithSelect(sql_trimmed) ==
    sql_trimmed # <<>> /\ Head(sql_trimmed) = "SELECT"

\* validate_sql lines 43-46: one error per forbidden keyword found
ForbiddenKeywordErrors(sql_trimmed) ==
    LET found == SelectIn(forbidden_keywords, Range(sql_trimmed))
    IN  [i \in 1..Len(found) |-> Err("forbidden_keyword", found[i])]

\* validate_sql lines 48-50
MultipleStatements(sql_no_comments) ==
    \E i \in 1..Len(RStripSemicolons(sql_no_comments)) : sql_no_comments[i] = ";"

\* line 55 finding no LIMIT in any text
LimitNeverFound(sanitized) == TRUE

\* validate_sql line 55: 'LIMIT' not in sanitized_upper
LimitAbsent(sanitized) == \A i \in 1..Len(sanitized) : ~ContainsLimit(sanitized[i])

\* validate_sql lines 59-64
LimitErrors(sanitized) ==
    IF LimitAbsent(sanitized) \/ LimitMatches(sanitized) = {} THEN <<>>
    ELSE LET v == LimitValueAt(sanitized, Min(LimitMatches(sanitized)))
         IN  IF IntOf(v) > max_limit THEN <<Err("limit_exceeds_maximum", v)>>
             ELSE <<>>

\* validate_sql lines 66-69: \b(?:staging_|intermediate_|raw_)\w+
NonProductionPattern(tok) == tok \in {"staging_x.t"}

\* validate_sql lines 71-74: one warning per pattern that matches
PiiWarnings(sql) ==
    LET hit(p) == Range(sql) \cap pii_patterns[p] # {}
    IN  (IF hit(1) THEN <<Err("pii_pattern", "name|phone|email")>> ELSE <<>>)
        \o (IF hit(2) THEN <<Err("pii_pattern", "contact|mobile")>> ELSE <<>>)
        \o (IF hit(3) THEN <<Err("pii_pattern", "firstname|lastname")>> ELSE <<>>)

\* validate_sql lines 76-78: SELECT\s+\*
SelectStar(sql_trimmed) ==
    \E i \in 1..(Len(sql_trimmed) - 1) :
        /\ sql_trimmed[i] = "SELECT"
        /\ \E j \in (i + 1)..Len(sql_trimmed) :
              /\ sql_trimmed[j] = "*"
              /\ \A k \in (i + 1)..(j - 1) : sql_trimmed[k] = "NL"

\* validate_sql lines 80-84: \bdev_\w+\. , \bairbyte_internal\. ,
\* \becochamps25_26\. searched in the text as given, one error per pattern
ForbiddenSchemaErrors(sql) ==
    LET schemas == {SchemaOf(sql[i]) : i \in 1..Len(sql)}
    IN  (IF "dev_x" \in schemas THEN <<Err("forbidden_schema", "dev_")>> ELSE <<>>)
        \o (IF "airbyte_internal" \in schemas
            THEN <<Err("forbidden_schema", "airbyte_internal")>> ELSE <<>>)
        \o (IF "ecochamps25_26" \in schemas
            THEN <<Err("forbidden_schema", "ecochamps25_26")>> ELSE <<>>)

\* line 90 returning the corrected text also when it equals the input
CorrectedAlways(corrected_sql, sql) == corrected_sql

\* validate_sql line 90: corrected_sql if corrected_sql != sql else None
CorrectedOrNone(corrected_sql, sql) ==
    IF corrected_sql # sql THEN corrected_sql ELSE NoneText

\* SqlGuard.validate_sql
validate_sql(sql) ==
    LET sql_no_comments == StripComments(sql)
        sql_trimmed == UpperText(Strip(sql_no_comments))
        sanitized == sanitize_sql(sql_no_comments)
        corrected_sql ==
            IF LimitAbsent(sanitized)
            THEN sanitized \o <<"NL", "LIMIT", StrOf(default_limit)>>
            ELSE Strip(sql)
        errors ==
            (IF StartsWithSelect(sql_trimmed) THEN <<>>
             ELSE <<Err("must_start_with_select", "")>>)
            \o ForbiddenKeywordErrors(sql_trimmed)
            \o (IF MultipleStatements(sql_no_comments)
                THEN <<Err("multiple_statements", "")>> ELSE <<>>)
            \o LimitErrors(sanitized)
            \o ForbiddenSchemaErrors(sql)
        warnings ==
            (IF LimitAbsent(sanitized) THEN <<Err("no_limit_adding_default", "")>>
             ELSE <<>>)
            \o (IF \E i \in 1..Len(sql) : NonProductionPattern(sql[i])
                THEN <<Err("non_production_schema", "")>> ELSE <<>>)
            \o PiiWarnings(sql)
            \o (IF SelectStar(sql_trimmed) THEN <<Err("select_star", "")>> ELSE <<>>)
    IN  [is_valid      |-> errors = <<>>,
         corrected_sql |-> CorrectedOrNone(corrected_sql, sql),
         errors        |-> errors,
         warnings      |-> warnings]

(***************************************************************************)
(* db/postgres.py: the database and the SchemaIndex.                       *)
(***************************************************************************)
\* the tables that exist in the connected database (any schema)
DbTables ==
    {"prod.t", "prod.u", "staging.t", "dev_x.t", "information_schema.tables"}

\* column names of a table of the database
DbColumns(table) ==
    CASE table = "prod.t"    -> {"a", "b"}
      [] table = "prod.u"    -> {"a"}
      [] table = "staging.t" -> {"a"}
      [] table = "dev_x.t"   -> {"a"}
      [] table = "information_schema.tables" -> {"a", "x"}
      [] OTHER               -> {}

\* PostgresExecutor.get_schema_info: the WHERE clause of its query keeps the
\* tables of prod, staging and intermediate
SchemaInfoTables ==
    {t \in DbTables : SchemaOf(t) \in {"prod", "staging", "intermediate"}}

\* PostgresExecutor.get_table_columns_live: the columns of schema.table read
\* from information_schema, [] when the query fails
get_table_columns_live(table, live) ==
    IF live /\ table \in DbTables THEN DbColumns(table) ELSE {}

\* an index that reports every table as existing
TableAlwaysExists(table, cache, live) == [exists |-> TRUE, schema_cache |-> cache]

\* SchemaIndex.table_exists: [exists, schema_cache]
table_exists(table, cache, live) ==
    IF table \in cache THEN [exists |-> TRUE, schema_cache |-> cache]
    ELSE IF table \in TableTokens /\ get_table_columns_live(table, live) # {}
    THEN [exists |-> TRUE, schema_cache |-> cache \cup {table}]
    ELSE [exists |-> FALSE, schema_cache |-> cache]

\* SchemaIndex.get_table_columns, lower-cased names: [columns, schema_cache]
get_table_columns(table, cache, live) ==
    IF table \in cache /\ DbColumns(table) # {}
    THEN [columns |-> DbColumns(table), schema_cache |-> cache]
    ELSE IF table \in TableTokens /\ get_table_columns_live(table, live) # {}
    THEN [columns |-> DbColumns(table), schema_cache |-> cache \cup {table}]
    ELSE [columns |-> {}, schema_cache |-> cache]

\* outcomes of the external capabilities during one tool call:
\*   exec  PostgresExecutor.execute_sql: rows, an empty frame or an error
\*   live  whether the information_schema lookup can be made
\*   docs  the document ids VectorStore.retrieve returns
\*   fault whether VectorStore.retrieve raises
ExecOutcomes == {"rows", "empty", "error"}

DocOutcomes == {<<>>, <<"d1">>}

NoExt == [exec |-> "rows", live |-> TRUE, docs |-> <<>>, fault |-> FALSE]

\* every outcome
ExtOutcomes ==
    {[exec |-> e, live |-> l, docs |-> d, fault |-> f] :
        e \in ExecOutcomes, l \in BOOLEAN, d \in DocOutcomes, f \in BOOLEAN}

\* the outcomes that the handler of tool `name` can observe
ExtFor(name) ==
    CASE name = "run_sql_query" ->
            {[NoExt EXCEPT !.exec = e, !.live = l] : e \in ExecOutcomes, l \in BOOLEAN}
      [] name \in {"get_distinct_values", "check_table_row_count"} ->
            {[NoExt EXCEPT !.exec = e] : e \in ExecOutcomes}
      [] name = "retrieve_docs" ->
            {[NoExt EXCEPT !.docs = d] : d \in DocOutcomes}
            \cup {[NoExt EXCEPT !.fault = TRUE]}
      [] OTHER -> {NoExt}

(***************************************************************************)
(* agents/enhanced_tool_orchestrator.py: the tool handlers.                *)
(***************************************************************************)
\* tokens that are not words: punctuation, comment marks, line breaks
PunctTokens == {"(", ")", "*", "=", ";", ",", "/*", "*/", "--", "NL", "\""}

\* the leading run of [\w.] characters of a token ("" when there is none)
WordPrefix(tok) ==
    CASE tok \in PunctTokens \cup LiteralTokens -> ""
      [] tok = "COUNT(*)"                        -> "COUNT"
      [] OTHER                                   -> tok

\* the trailing run of \w characters of a token ("" when there is none)
WordSuffix(tok) ==
    CASE tok \in PunctTokens \cup LiteralTokens \cup {"COUNT(*)"} -> ""
      [] tok \in {"prod.t", "staging.t", "dev_x.t", "airbyte_internal.t",
                  "staging_x.t"}                 -> "t"
      [] tok = "PROD.T"                          -> "T"
      [] tok = "prod.u"                          -> "u"
      [] tok = "information_schema.tables"       -> "tables"
      [] OTHER                                   -> tok

\* re.search(r"FROM\s+([`\"]?)([\w\.]+)\1", sql, re.IGNORECASE): the
\* positions of a FROM that is followed by a name
FromNameMatches(sql) ==
    {i \in 1..(Len(sql) - 1) : IsFrom(sql[i]) /\ WordPrefix(sql[i + 1]) # ""}

\* re.search(r"FROM\s+([`\"]?)(\w+\.\w+)\1", sql, re.IGNORECASE): the
\* positions of a FROM that is followed by a schema-qualified name
FromTableMatches(sql) ==
    {i \in 1..(Len(sql) - 1) : IsFrom(sql[i]) /\ sql[i + 1] \in TableTokens}

\* re.search(r"(\w+)\s*=\s*'([^']+)'", sql): positions of column = 'value'
EqualityFilterMatches(sql) ==
    {i \in 1..(Len(sql) - 2) :
        WordSuffix(sql[i]) # "" /\ sql[i + 1] = "=" /\ sql[i + 2] \in LiteralTokens}

\* re.search(r"(\w+)\s+IN\s*\(\s*'([^']+)'", sql, re.IGNORECASE): positions
\* of column IN ('value'
InFilterMatches(sql) ==
    {i \in 1..(Len(sql) - 3) :
        /\ WordSuffix(sql[i]) # ""
        /\ Upper(sql[i + 1]) = "IN"
        /\ sql[i + 2] = "("
        /\ sql[i + 3] \in LiteralTokens}

\* _check_where_clauses_need_distinct_values
NoCheck == [needs_distinct |-> FALSE, table |-> "", column |-> "", attempted_value |-> ""]

\* the tokens that contain the substring FROM\s with a literal backslash,
\* which is what the pattern of _rewrite_sql_for_missing_columns asks for
LiteralBackslashFrom == {"FROM\\s"}

\* _rewrite_sql_for_missing_columns line 807: its pattern is written with
\* doubled backslashes in a raw string, r"FROM\\s+([\\w\\.]+)", and so
\* matches only a text that spells FROM, a backslash and the letter s
RewriteTableMatches(sql) ==
    {i \in 1..Len(sql) : sql[i] \in LiteralBackslashFrom}

\* _rewrite_sql_for_missing_columns lines 810-829 for a text that has the
\* match of line 807: the patterns of lines 816 and 821 are written the same
\* way (SELECT\\s+, \\s+FROM, GROUP\\s+BY\\s+) and no token spells them, so
\* col_tokens stays empty, missing_cols is empty and the text is returned
RewriteWithoutColumnTokens(sql, table) == sql

\* _rewrite_sql_for_missing_columns
_rewrite_sql_for_missing_columns(sql) ==
    LET tm == RewriteTableMatches(sql) IN
    IF tm = {} THEN sql
    ELSE RewriteWithoutColumnTokens(sql, IF Min(tm) < Len(sql) THEN sql[Min(tm) + 1] ELSE "")

_check_where_clauses_need_distinct_values(sql) ==
    IF sql = <<>> \/ \A i \in 1..Len(sql) : ~ContainsWhere(sql[i]) THEN NoCheck
    ELSE LET eq == EqualityFilterMatches(sql)
             inm == InFilterMatches(sql)
             tm == FromTableMatches(sql)
         IN  IF tm = {} \/ (eq = {} /\ inm = {}) THEN NoCheck
             ELSE LET i == IF eq # {} THEN Min(eq) ELSE Min(inm)
                      v == IF eq # {} THEN sql[i + 2] ELSE sql[i + 3]
                  IN  [needs_distinct  |-> TRUE,
                       table           |-> sql[Min(tm) + 1],
                       column          |-> WordSuffix(sql[i]),
                       attempted_value |-> v]

\* _find_tables_with_column: the cached tables that have the column
_find_tables_with_column(column, schema_cache) ==
    {t \in schema_cache : Lower(column) \in DbColumns(t)}

\* _missing_distinct: [missing, schema_cache]
_missing_distinct(sql, distinct_cache, schema_cache, live) ==
    LET check == _check_where_clauses_need_distinct_values(sql)
        tbl == check.table
        col == check.column
        got == get_table_columns(tbl, schema_cache, live)
    IN  IF ~check.needs_distinct
        THEN [missing |-> <<>>, schema_cache |-> schema_cache]
        ELSE IF Lower(col) \notin got.columns
        THEN [missing |-> <<[table |-> tbl, column |-> col,
                             error |-> "column_not_in_table",
                             candidates |-> _find_tables_with_column(col, got.schema_cache)]>>,
              schema_cache |-> got.schema_cache]
        ELSE IF <<<<Lower(tbl)>>, <<Lower(col)>>>> \notin distinct_cache
        THEN [missing |-> <<[table |-> tbl, column |-> col, error |-> "",
                             candidates |-> {}]>>,
              schema_cache |-> got.schema_cache]
        ELSE [missing |-> <<>>, schema_cache |-> got.schema_cache]

\* the fields a tool result can carry; an absent key reads as the value here
NoResult ==
    [error |-> "", success |-> FALSE, sql_used |-> NoneText, issues |-> <<>>,
     missing |-> <<>>, missing_table |-> "", data_preview |-> "",
     table |-> <<>>, column |-> <<>>, values |-> <<>>, docs |-> <<>>]

\* the arguments of a tool call; an absent key reads as the empty text
NoArgs == [sql |-> <<>>, table |-> <<>>, column |-> <<>>, query |-> <<>>]

\* what a handler leaves behind: its result, the two caches and the texts
\* it handed to PostgresExecutor.execute_sql
ToolOutcome(result, distinct_cache, schema_cache, executed) ==
    [result |-> result, distinct_cache |-> distinct_cache,
     schema_cache |-> schema_cache, executed |-> executed]

\* PostgresExecutor.execute_sql as seen by a call that executed the texts
\* `executed`: lines 55-62 with or without rows, lines 65-72 on an exception
ExecResult(executed, ext) == IF executed = <<>> THEN "none" ELSE ext.exec

\* lines 747-749 refusing only a statement that has no corrected text
ValidationRefusesUncorrected(validation) ==
    ~validation.is_valid /\ validation.corrected_sql = NoneText

\* _tool_run_sql_query lines 747-749: the statement is refused
ValidationRefuses(validation) == ~validation.is_valid

\* _tool_run_sql_query line 752: validation.corrected_sql or sql
FinalSql(validation, sql) ==
    IF validation.corrected_sql # NoneText /\ validation.corrected_sql # <<>>
    THEN validation.corrected_sql
    ELSE sql

\* _tool_run_sql_query
_tool_run_sql_query(args, distinct_cache, schema_cache, ext) ==
    LET validation == validate_sql(args.sql)
        final_sql == FinalSql(validation, args.sql)
    IN  IF ValidationRefuses(validation)
        THEN ToolOutcome([NoResult EXCEPT !.error = "sql_validation_failed",
                                          !.issues = validation.errors],
                         distinct_cache, schema_cache, <<>>)
        ELSE ToolOutcome([NoResult EXCEPT
                             !.success = (ext.exec # "error"),
                             !.data_preview = IF ext.exec = "rows" THEN "rows" ELSE "",
                             !.error = IF ext.exec = "error" THEN "db_error" ELSE "",
                             !.sql_used = final_sql],
                         distinct_cache, schema_cache, <<final_sql>>)

\* _run_sql_with_distinct_guard line 794: the gate blocks the statement
GateBlocks(missing) == missing # <<>>

\* _run_sql_with_distinct_guard
_run_sql_with_distinct_guard(args, distinct_cache, schema_cache, ext) ==
    LET sql == args.sql
        tm == FromNameMatches(sql)
        candidate_table == WordPrefix(sql[Min(tm) + 1])
        te == table_exists(candidate_table, schema_cache, ext.live)
        cache1 == IF tm = {} THEN schema_cache ELSE te.schema_cache
        sql2 == _rewrite_sql_for_missing_columns(sql)
        md == _missing_distinct(sql2, distinct_cache, cache1, ext.live)
    IN  IF tm # {} /\ ~te.exists
        THEN ToolOutcome([NoResult EXCEPT !.error = "table_not_found",
                                          !.missing_table = candidate_table],
                         distinct_cache, te.schema_cache, <<>>)
        ELSE IF GateBlocks(md.missing)
        THEN ToolOutcome([NoResult EXCEPT !.error = "must_fetch_distinct_values",
                                          !.missing = md.missing],
                         distinct_cache, md.schema_cache, <<>>)
        ELSE _tool_run_sql_query([args EXCEPT !.sql = sql2],
                                 distinct_cache, md.schema_cache, ext)

\* PostgresExecutor._get_sample_values lines 146-152: the statement it builds
SampleValuesSql(table_name, column_name, limit) ==
    <<"NL", "SELECT", "DISTINCT", "\"">> \o column_name \o <<"\"", "NL", "FROM">>
    \o table_name
    \o <<"NL", "WHERE", "\"">> \o column_name \o <<"\"", "IS", "NOT", "NULL", "NL",
         "ORDER", "BY", "\"">> \o column_name \o <<"\"", "NL", "LIMIT", limit, "NL">>

\* PostgresExecutor.get_sample_values lines 166-169: the arguments it accepts
SampleArgumentsOk(table_name, column_name) ==
    /\ \E i \in 1..Len(table_name) : table_name[i] \in TableTokens
    /\ Len(column_name) = 1
    /\ WordSuffix(column_name[1]) = column_name[1]
    /\ column_name[1] \notin TableTokens

\* _tool_get_distinct_values with PostgresExecutor.get_distinct_values; the
\* limit argument is left at its default of 50
_tool_get_distinct_values(args, distinct_cache, schema_cache, ext) ==
    IF ~SampleArgumentsOk(args.table, args.column)
    THEN ToolOutcome([NoResult EXCEPT !.error = "ValueError",
                                      !.table = args.table, !.column = args.column],
                     distinct_cache, schema_cache, <<>>)
    ELSE ToolOutcome([NoResult EXCEPT
                         !.table = args.table, !.column = args.column,
                         !.values = IF ext.exec = "rows" THEN <<"'X'">> ELSE <<>>],
                     distinct_cache, schema_cache,
                     <<SampleValuesSql(args.table, args.column, "50")>>)

\* a fetch that leaves the cache as it was
DistinctCacheKept(res, distinct_cache) == distinct_cache

\* _execute_tool lines 490-496: a fetch that reports no error marks its pair
DistinctCacheAfter(res, distinct_cache) ==
    IF res.error = "" /\ res.table # <<>> /\ res.column # <<>>
    THEN distinct_cache \cup {<<LowerText(res.table), LowerText(res.column)>>}
    ELSE distinct_cache

\* _tool_check_table_row_count
_tool_check_table_row_count(args, distinct_cache, schema_cache, ext) ==
    LET sql == <<"SELECT", "COUNT(*)", "as", "row_count", "FROM">> \o args.table
               \o <<"LIMIT", "1">>
    IN  IF args.table = <<>>
        THEN ToolOutcome([NoResult EXCEPT !.error = "Table name required"],
                         distinct_cache, schema_cache, <<>>)
        ELSE ToolOutcome([NoResult EXCEPT
                             !.table = args.table,
                             !.error = IF ext.exec = "rows" THEN ""
                                       ELSE "Could not count rows"],
                         distinct_cache, schema_cache, <<sql>>)

\* _tool_retrieve_docs with an orchestrator built without a dbt helper
_tool_retrieve_docs(args, distinct_cache, schema_cache, ext) ==
    IF ext.fault
    THEN ToolOutcome([NoResult EXCEPT !.error = "exception"],
                     distinct_cache, schema_cache, <<>>)
    ELSE ToolOutcome([NoResult EXCEPT !.docs = ext.docs],
                     distinct_cache, schema_cache, <<>>)

\* the tool names the registry declares and this model dispatches
ToolNames ==
    {"run_sql_query", "retrieve_docs", "get_distinct_values",
     "check_table_row_count", "search_dbt_models", "get_dbt_model_info"}

\* _execute_tool
_execute_tool(name, args, distinct_cache, schema_cache, ext) ==
    CASE name = "run_sql_query" ->
            _run_sql_with_distinct_guard(args, distinct_cache, schema_cache, ext)
      [] name = "retrieve_docs" ->
            _tool_retrieve_docs(args, distinct_cache, schema_cache, ext)
      [] name \in {"search_dbt_models", "get_dbt_model_info"} ->
            \* self.dbt_helper is None (the constructor's default)
            ToolOutcome([NoResult EXCEPT !.error = "DBT helper not available"],
                        distinct_cache, schema_cache, <<>>)
      [] name = "get_distinct_values" ->
            LET o == _tool_get_distinct_values(args, distinct_cache, schema_cache, ext)
            IN  [o EXCEPT !.distinct_cache = DistinctCacheAfter(o.result, distinct_cache)]
      [] name = "check_table_row_count" ->
            _tool_check_table_row_count(args, distinct_cache, schema_cache, ext)
      [] OTHER ->
            ToolOutcome([NoResult EXCEPT !.error = "Unknown tool"],
                        distinct_cache, schema_cache, <<>>)

(***************************************************************************)
(* agents/enhanced_tool_orchestrator.py: _execute_tool_loop.               *)
(***************************************************************************)
VARIABLES
    distinct_cache,   \* self._distinct_cache: pairs <<table, column>>, lower case
    schema_cache,     \* SchemaIndex._schema_cache: the tables it holds
    pc,               \* where the instance stands: "idle" (no query in
                      \* progress), "await_model", "dispatch", "done"
    max_turns,        \* argument max_turns of the running loop
    force_tool_usage, \* intent_response.force_tool_usage
    turn,             \* loop variable turn
    tool_calls,       \* the tool calls of the current assistant message
    call_ix,          \* index in tool_calls of the next call to dispatch
    tool_trace,       \* local tool_trace
    retrieved_ids,    \* local retrieved_ids
    tool_messages,    \* the messages of role "tool" appended to messages
    messages,         \* the records the loop appended to messages, assistant
                      \* records and tool messages, by role and call ids
    last_sql,         \* local last_sql
    last_sql_result,  \* local last_sql_result
    chat_calls,       \* number of _openai_chat invocations of the running loop
                      \* that have returned
    tool_choice,      \* tool_choice of the most recent create call
    attempt,          \* loop variable attempt of the running _openai_chat
                      \* invocation, 0 when none is running
    backoff,          \* seconds that invocation slept before this attempt
    response,         \* the AgentResponse returned, NoResponse before
    executed,         \* the texts the most recent tool call gave to execute_sql
    last_call,        \* the most recent call of _execute_tool: name, args, result
    exec_result,      \* what execute_sql returned to that call: "rows", "empty",
                      \* "error", or "none" when the call executed nothing
    g_sql,            \* argument of the most recent validate_sql call
    g_validation,     \* its SqlValidationResult
    g_first,          \* the result whose corrected text g_sql is, NoValidation
                      \* when g_sql is a text as supplied
    h_history,        \* argument chat_history of extract_conversation_context
    h_context,        \* the ConversationContext it returned, NoContextYet before
    r_query,          \* argument user_query of classify_intent
    r_reply,          \* what self.llm.invoke did in that call, NoReply before
    r_classification, \* the RouterResponse it returned
    r_llm_calls,      \* the invocations of self.llm it made
    s_db,             \* the tables the database holds
    s_index,          \* the keys of SchemaIndex._schema_cache in dict order
    s_call,           \* the most recent call on the schema index: name,
                      \* arguments, whether the database answered, and
                      \* list_tables() when it was made
    s_result,         \* what that call returned
    sessions          \* the orchestrator instances of concurrent sessions:
                      \* for each its _distinct_cache, its schema index and
                      \* the locals of its running _execute_tool_loop

vars ==
    <<distinct_cache, schema_cache, pc, max_turns, force_tool_usage, turn,
      tool_calls, call_ix, tool_trace, retrieved_ids, tool_messages, messages, last_sql,
      last_sql_result, chat_calls, tool_choice, attempt, backoff, response,
      executed, last_call,
      exec_result, g_sql, g_validation, g_first, h_history, h_context,
      r_query, r_reply, r_classification, r_llm_calls, s_db, s_index,
      s_call, s_result, sessions>>

instance_vars == <<distinct_cache, schema_cache>>

loop_vars ==
    <<pc, max_turns, force_tool_usage, turn, tool_calls, call_ix, tool_trace,
      retrieved_ids, tool_messages, messages, last_sql, last_sql_result, chat_calls,
      tool_choice, attempt, backoff, response>>

guard_vars == <<g_sql, g_validation, g_first>>

query_vars ==
    <<h_history, h_context, r_query, r_reply, r_classification, r_llm_calls>>

schema_vars == <<s_db, s_index, s_call, s_result>>

\* largest turn budget given to a loop
MaxTurns == 2

\* _openai_chat line 414
max_retries == 3

NoResponse ==
    [response_text |-> "", sql_used |-> NoneText, sources_used |-> <<>>,
     tool_calls |-> <<>>, turns |-> 0, max_turns_reached |-> FALSE,
     sql_result |-> NoResult, returned |-> FALSE]

NoCall == [name |-> "", args |-> NoArgs, result |-> NoResult]

NoValidation ==
    [is_valid |-> FALSE, corrected_sql |-> NoneText, errors |-> <<>>, warnings |-> <<>>]

\* a response that reports the index of the turn instead of the count
AgentResponseTurnIndex(text, sql, sources, trace, turns, reached, sql_result) ==
    [response_text |-> text, sql_used |-> sql, sources_used |-> sources,
     tool_calls |-> trace, turns |-> turns - 1, max_turns_reached |-> reached,
     sql_result |-> sql_result, returned |-> TRUE]

\* AgentResponse as built at lines 322-334, 364-376, 382-395 and 397-410
AgentResponse(text, sql, sources, trace, turns, reached, sql_result) ==
    [response_text |-> text, sql_used |-> sql, sources_used |-> sources,
     tool_calls |-> trace, turns |-> turns, max_turns_reached |-> reached,
     sql_result |-> sql_result, returned |-> TRUE]

Apology == "I'm sorry, I couldn't get enough data to answer this."

TechnicalDifficulties == "I'm experiencing technical difficulties."

ExecutedSuccessfully == "Query executed successfully."

(***************************************************************************)
(* The statements and tool calls the completion capability supplies.       *)
(***************************************************************************)
SelectHeads ==
    {<<"SELECT", "a">>, <<"select", "a">>, <<"SELECT", "*">>,
     <<"SELECT", "limit_x">>, <<"SELECT", "email">>, <<"DROP", "tbl">>,
     <<"NL", "SELECT", "a">>, <<"/*", "x", "*/", "SELECT", "a">>}

FromClauses ==
    {<<"FROM", t>> : t \in {"prod.t", "staging.t", "dev_x.t", "airbyte_internal.t",
                            "information_schema.tables", "staging_x.t", "tbl"}}
    \cup {<<"FROM", "prod.t", "JOIN", "information_schema.tables">>,
          <<"FROM", "(", "SELECT", "a", "FROM", "prod.t", "LIMIT", "10", ")", "x">>}

WhereClauses ==
    {<<>>,
     <<"WHERE", "a", "=", "'X'">>,
     <<"WHERE", "b", "IN", "(", "'Y'", ")">>,
     <<"WHERE", "a", "=", "'X'", "AND", "b", "=", "'Y'">>}

LimitClauses ==
    {<<>>, <<"LIMIT", "100">>, <<"LIMIT", "2000">>, <<"LIMIT", "2001">>,
     <<"limit", "5000">>, <<"NL", "LIMIT", "500">>}

Tails ==
    {<<>>, <<";">>, <<";", "NL">>, <<";", "DROP", "tbl">>,
     <<"/*", "DROP", "*/">>, <<"--", "delete", "tbl">>,
     <<"--", "/*", "NL", ";", "DROP", "tbl", ";", "SELECT", "a", "--", "*/">>}

\* the statements validate_sql is applied to
GuardTexts ==
    {h \o f \o w \o l \o t :
        h \in SelectHeads, f \in FromClauses, w \in WhereClauses,
        l \in LimitClauses, t \in Tails}

\* the statements run_sql_query is called with
ToolSqlTexts ==
    {<<"SELECT", "a", "FROM", "prod.t">>,
     <<"SELECT", "a", "FROM", "prod.t", "LIMIT", "100">>,
     <<"SELECT", "a", "FROM", "prod.t", "LIMIT", "5000">>,
     <<"SELECT", "a", "FROM", "prod.t", "WHERE", "a", "=", "'X'", "LIMIT", "100">>,
     <<"SELECT", "a", "FROM", "prod.t", "WHERE", "b", "IN", "(", "'Y'", ")">>,
     <<"SELECT", "a", "FROM", "prod.t", "WHERE", "a", "=", "'X'", "AND", "b", "=", "'Y'",
       "LIMIT", "100">>,
     <<"SELECT", "a", "FROM", "prod.t", "WHERE", "x", "=", "'X'", "LIMIT", "100">>,
     <<"SELECT", "a", "FROM", "information_schema.tables", "LIMIT", "100">>,
     <<"SELECT", "a", "FROM", "prod.t", "JOIN", "information_schema.tables", "LIMIT", "100">>,
     <<"SELECT", "a", "FROM", "tbl", "LIMIT", "100">>,
     <<"SELECT", "limit_x", "FROM", "prod.t">>,
     <<"SELECT", "b", "FROM", "prod.u", "LIMIT", "100">>,
     <<"SELECT", "a", "FROM", "(", "SELECT", "a", "FROM", "prod.t", "LIMIT", "10", ")",
       "x", "LIMIT", "5000">>,
     <<"SELECT", "a", "FROM", "prod.t", ";", "DROP", "tbl">>,
     <<"SELECT", "a", "FROM", "prod.t", "LIMIT", "100", "/*", "DROP", "*/">>,
     <<"SELECT", "a", "FROM", "prod.t", "--", "/*", "NL", ";", "DROP", "tbl", ";",
       "SELECT", "a", "--", "*/", "NL", "LIMIT", "1">>,
     <<"DROP", "tbl">>}

Call(name, args) == [name |-> name, args |-> args]

\* the table and column arguments get_distinct_values is called with
DistinctArgs ==
    {<<<<"prod.t">>, <<"a">>>>, <<<<"PROD.T">>, <<"B">>>>, <<<<"tbl">>, <<"a">>>>,
     <<<<"prod.t">>, <<"a", ";">>>>, <<<<>>, <<"a">>>>,
     <<<<"prod.t", ";", "DROP", "tbl">>, <<"a">>>>}

\* the table argument check_table_row_count is called with
TableArgs == {<<>>, <<"prod.t">>, <<"prod.t", ";", "DROP", "tbl">>}

\* every tool call of the instance-level specification
ToolCalls ==
    {Call("run_sql_query", [NoArgs EXCEPT !.sql = q]) : q \in ToolSqlTexts}
    \cup {Call("get_distinct_values", [NoArgs EXCEPT !.table = d[1], !.column = d[2]]) :
             d \in DistinctArgs}
    \cup {Call("check_table_row_count", [NoArgs EXCEPT !.table = t]) : t \in TableArgs}
    \cup {Call(n, NoArgs) : n \in {"retrieve_docs", "search_dbt_models",
                                   "get_dbt_model_info", "no_such_tool"}}

\* the tool calls of the loop specification
SqlPlain == <<"SELECT", "a", "FROM", "prod.t", "LIMIT", "100">>

SqlFiltered == <<"SELECT", "a", "FROM", "prod.t", "WHERE", "a", "=", "'X'">>

SqlForbidden == <<"SELECT", "a", "FROM", "prod.t", ";", "DROP", "tbl">>

CallPlain == Call("run_sql_query", [NoArgs EXCEPT !.sql = SqlPlain])

CallFiltered == Call("run_sql_query", [NoArgs EXCEPT !.sql = SqlFiltered])

CallForbidden == Call("run_sql_query", [NoArgs EXCEPT !.sql = SqlForbidden])

CallDistinct ==
    Call("get_distinct_values", [NoArgs EXCEPT !.table = <<"prod.t">>, !.column = <<"a">>])

CallDocs == Call("retrieve_docs", NoArgs)

CallRowCount == Call("check_table_row_count", [NoArgs EXCEPT !.table = <<"prod.t">>])

CallUnknown == Call("no_such_tool", NoArgs)

\* the lists of tool calls one assistant message can carry
AssistantToolCalls ==
    {<<CallPlain>>, <<CallRowCount>>,
     <<CallDistinct, CallFiltered>>, <<CallFiltered, CallDistinct>>,
     <<CallPlain, CallDocs>>, <<CallDocs, CallPlain>>, <<CallUnknown, CallForbidden>>,
     <<CallPlain, CallForbidden>>}

\* the longest list of tool calls of one assistant message
MaxCallsPerMessage ==
    CHOOSE n \in {Len(calls) : calls \in AssistantToolCalls} :
        \A calls \in AssistantToolCalls : Len(calls) <= n

(***************************************************************************)
(* agents/conversation_manager.py: ConversationManager.                    *)
(*                                                                         *)
(* The SQL of earlier answers is text as above; "," is attached to the     *)
(* token before it like ";".  A list of strings is a sequence of texts.    *)
(***************************************************************************)
\* __init__ line 13
max_history_turns == 10

\* the characters the class [^ORDER|LIMIT|;] of line 106 leaves out, under
\* re.IGNORECASE: o r d e l i m t in both cases, "|" and ";".  StopFree
\* tells whether a token has none of them, StopFreePrefix is the part of
\* the token before the first of them ("" when the token starts with one)
StopFreeTokens == {"a", "b", "x", ",", "1", "10", "50", "100", "500"}

StopFree(tok) == tok \in StopFreeTokens

StopFreePrefix(tok) ==
    CASE tok \in StopFreeTokens -> tok
      [] tok = "age"            -> "ag"
      [] tok = "staging.t"      -> "s"
      [] tok \in {"prod.t", "prod.u"} -> "p"
      [] OTHER                  -> ""

\* the leading run of \w characters of the token after FROM or JOIN, which
\* the second and fourth pattern of lines 59-64 capture
LeadingWord(tok) ==
    CASE tok = "PROD.T"      -> "PROD"
      [] tok \in TableTokens -> SchemaOf(tok)
      [] OTHER               -> WordPrefix(tok)

RECURSIVE Unique(_)
\* lines 70-71: a list without the later repetitions of its elements
Unique(s) ==
    IF s = <<>> THEN <<>>
    ELSE LET init == Unique(Take(s, Len(s) - 1))
         IN  IF s[Len(s)] \in Range(init) THEN init ELSE Append(init, s[Len(s)])

RECURSIVE TargetsOf(_, _)
\* the tokens that follow a token `keyword` (in either case) in sql
TargetsOf(sql, keyword) ==
    IF Len(sql) < 2 THEN <<>>
    ELSE (IF Upper(sql[1]) = keyword THEN <<sql[2]>> ELSE <<>>)
         \o TargetsOf(Tail(sql), keyword)

RECURSIVE QualifiedNames(_)
\* what the patterns with (\w+\.\w+) capture from the tokens `targets`
QualifiedNames(targets) ==
    IF targets = <<>> THEN <<>>
    ELSE (IF Head(targets) \in TableTokens THEN <<Head(targets)>> ELSE <<>>)
         \o QualifiedNames(Tail(targets))

RECURSIVE LeadingWords(_)
\* what the patterns with (\w+) capture from the tokens `targets`
LeadingWords(targets) ==
    IF targets = <<>> THEN <<>>
    ELSE (IF LeadingWord(Head(targets)) # "" THEN <<LeadingWord(Head(targets))>>
          ELSE <<>>)
         \o LeadingWords(Tail(targets))

\* _extract_tables_from_sql: the four patterns in turn, each over the
\* whole text, their captures collected without repetition
_extract_tables_from_sql(sql) ==
    IF sql = <<>> THEN <<>>
    ELSE Unique(QualifiedNames(TargetsOf(sql, "FROM"))
                \o LeadingWords(TargetsOf(sql, "FROM"))
                \o QualifiedNames(TargetsOf(sql, "JOIN"))
                \o LeadingWords(TargetsOf(sql, "JOIN")))

RECURSIVE GroupClause(_)
\* the run [^ORDER|LIMIT|;]+ of line 106 read from the start of `rest`:
\* whole tokens as long as they are free of the excluded characters, then
\* the stop-free prefix of the next one
GroupClause(rest) ==
    IF rest = <<>> THEN <<>>
    ELSE IF StopFree(Head(rest)) THEN <<Head(rest)>> \o GroupClause(Tail(rest))
    ELSE IF StopFreePrefix(Head(rest)) # "" THEN <<StopFreePrefix(Head(rest))>>
    ELSE <<>>

\* the places i where sql reads GROUP BY followed by a token that does not
\* start with an excluded character, so that the pattern of line 106 matches
GroupByMatches(sql) ==
    {i \in 1..Len(sql) - 2 :
        /\ Upper(sql[i]) = "GROUP"
        /\ Upper(sql[i + 1]) = "BY"
        /\ StopFreePrefix(sql[i + 2]) # ""}

RECURSIVE SplitAtCommas(_, _)
\* str.split(','): the pieces of clause between its commas, `piece` being
\* the piece read so far
SplitAtCommas(clause, piece) ==
    IF clause = <<>> THEN <<piece>>
    ELSE IF Head(clause) = "," THEN <<piece>> \o SplitAtCommas(Tail(clause), <<>>)
    ELSE SplitAtCommas(Tail(clause), Append(piece, Head(clause)))

\* _extract_dimensions_from_sql
_extract_dimensions_from_sql(sql) ==
    IF sql = <<>> \/ GroupByMatches(sql) = {} THEN <<>>
    ELSE SplitAtCommas(GroupClause(Drop(sql, Min(GroupByMatches(sql)) + 1)), <<>>)

\* metadata of a chat message: the key is absent, null, or a dictionary
\* with sql_used (the empty text when absent) and chart_ids_used
NoMetadata == [kind |-> "absent", sql_used |-> <<>>, chart_ids_used |-> <<>>]

NullMetadata == [kind |-> "null", sql_used |-> <<>>, chart_ids_used |-> <<>>]

Metadata(sql, chart_ids) ==
    [kind |-> "dict", sql_used |-> sql, chart_ids_used |-> chart_ids]

Message(role, metadata) == [role |-> role, metadata |-> metadata]

\* ConversationContext() of agents/models.py lines 14-22; the fields
\* last_metrics and last_filters, which no tool and no routing step reads
\* apart from the prompt text, are left out
NoContext ==
    [last_sql_query |-> NoneText, last_tables_used |-> <<>>, last_chart_ids |-> <<>>,
     last_dimensions |-> <<>>, last_response_type |-> "", raised |-> FALSE]

\* lines 24-44: what one message of the scan makes of the context
ScanMessage(context, message) ==
    IF message.role # "assistant" THEN context
    ELSE IF message.metadata.kind = "null"
    THEN \* line 30: None.get raises AttributeError
         [context EXCEPT !.raised = TRUE]
    ELSE
    LET metadata == message.metadata
        c1 == IF metadata.sql_used # <<>> /\ context.last_sql_query = NoneText
              THEN [context EXCEPT
                       !.last_sql_query = metadata.sql_used,
                       !.last_tables_used = _extract_tables_from_sql(metadata.sql_used),
                       !.last_response_type = "sql_result",
                       !.last_dimensions =
                            _extract_dimensions_from_sql(metadata.sql_used)]
              ELSE context
        c2 == IF metadata.chart_ids_used # <<>> /\ c1.last_chart_ids = <<>>
              THEN [c1 EXCEPT
                       !.last_chart_ids =
                            [i \in 1..Len(metadata.chart_ids_used) |->
                                <<StrOf(metadata.chart_ids_used[i])>>],
                       !.last_response_type =
                            IF c1.last_response_type = "" THEN "metadata_answer"
                            ELSE c1.last_response_type]
              ELSE c1
    IN  c2

RECURSIVE ScanReversed(_, _)
\* lines 23-48: the for loop over reversed(recent_history), `recent` being
\* the messages not yet visited
ScanReversed(context, recent) ==
    IF recent = <<>> THEN context
    ELSE LET c == ScanMessage(context, recent[Len(recent)])
         IN  IF c.raised THEN c
             ELSE IF c.last_sql_query # NoneText /\ c.last_chart_ids # <<>> THEN c
             ELSE ScanReversed(c, Take(recent, Len(recent) - 1))

\* the scan taking the whole history
WholeHistory(chat_history) == chat_history

\* line 21: chat_history[-self.max_history_turns:]
RecentHistory(chat_history) ==
    IF Len(chat_history) <= max_history_turns THEN chat_history
    ELSE Drop(chat_history, Len(chat_history) - max_history_turns)

\* extract_conversation_context; raised tells that the call ended with an
\* exception instead of a context
extract_conversation_context(chat_history) ==
    ScanReversed(NoContext, RecentHistory(chat_history))

(***************************************************************************)
(* agents/enhanced_router.py: EnhancedIntentRouter.                        *)
(*                                                                         *)
(* A user query is one string; what the router reads in it (its tokens,    *)
(* the phrases it contains) is given by the predicates below.              *)
(***************************************************************************)
\* agents/models.py lines 5-12
IntentTypes ==
    {"needs_clarification", "small_talk", "follow_up_sql", "follow_up_context",
     "irrelevant", "query_with_sql", "query_without_sql"}

Queries ==
    {"hi", "hello thanks", "how many cases", "what does attendance mean",
     "how are we doing", "our mission", "now by district", "count only girls",
     "weather in paris"}

\* lines 45-50: the tokens of the query all lie in greetings, at most four
GreetingOnly(query) == query \in {"hi", "hello thanks"}

\* lines 58-59: a token of the query is an organizational term
HasOrgTerm(query) == query = "our mission"

\* lines 69-74: the lower-cased query contains a follow-up indicator
HasFollowUpIndicator(query) == query \in {"now by district", "count only girls"}

\* line 172: the lower-cased query contains a data keyword
HasDataKeyword(query) == query \in {"how many cases", "count only girls"}

\* line 177: it contains an explanation keyword
HasExplanationKeyword(query) == query = "what does attendance mean"

\* line 182: it contains one of the vague words
HasVagueKeyword(query) == query = "how are we doing"

\* a field a dictionary or a model does not carry
Absent == "<absent>"

\* RouterResponse of agents/models.py lines 31-37; confidence as the text
\* of the number
RouterResponse(intent, confidence, reason, force_tools, is_follow_up) ==
    [intent |-> intent, confidence |-> confidence, reason |-> reason,
     force_tool_usage |-> force_tools, is_follow_up |-> is_follow_up,
     raised |-> FALSE]

\* _heuristic_classification; None is the record with intent Absent
_heuristic_classification(query, context) ==
    IF GreetingOnly(query)
    THEN RouterResponse("small_talk", "0.95", "Greeting or social pleasantry", FALSE, FALSE)
    ELSE IF HasOrgTerm(query)
    THEN RouterResponse("query_without_sql", "0.8", "Organizational info request",
                        FALSE, FALSE)
    ELSE IF /\ (context.last_sql_query # NoneText \/ context.last_chart_ids # <<>>)
            /\ HasFollowUpIndicator(query)
    THEN RouterResponse("follow_up_sql", "0.9", "Follow-up query detected", TRUE, TRUE)
    ELSE RouterResponse(Absent, "", "", FALSE, FALSE)

\* _fallback_classification
_fallback_classification(query) ==
    IF HasDataKeyword(query)
    THEN RouterResponse("query_with_sql", "0.7", "Contains data analysis keywords",
                        TRUE, FALSE)
    ELSE IF HasExplanationKeyword(query)
    THEN RouterResponse("query_without_sql", "0.7", "Contains explanation keywords",
                        FALSE, FALSE)
    ELSE IF HasVagueKeyword(query)
    THEN RouterResponse("needs_clarification", "0.7", "Query too vague", FALSE, FALSE)
    ELSE RouterResponse("query_without_sql", "0.7", "Default classification", FALSE, FALSE)

\* what self.llm.invoke does: it raises, or answers with a text that is no
\* JSON, or with the JSON text of a value: a dictionary with the fields of
\* a RouterResponse, some of them absent or of a wrong type, or a list
JsonDict(intent, confidence, reason, force_tools) ==
    [kind |-> "json", shape |-> "dict", intent |-> intent, confidence |-> confidence,
     reason |-> reason, force_tool_usage |-> force_tools]

LlmReplies ==
    {[kind |-> "exception"], [kind |-> "text"], [kind |-> "json", shape |-> "list"]}
    \cup {JsonDict(i, "0.85", "model", f) :
            i \in IntentTypes \cup {"chitchat", Absent}, f \in {"true", "false", Absent}}
    \cup {JsonDict("query_with_sql", c, r, "true") :
            c \in {Absent, "high", "0.85"}, r \in {Absent, "model"}}

\* the JSON texts of numbers among the confidence values
NumberTexts == {"0.85"}

\* RouterResponse(**result_data) taking every dictionary
AnyDictIsValid(reply) == reply.shape = "dict"

\* RouterResponse(**result_data) succeeds: pydantic takes a dictionary whose
\* intent is an IntentType, whose confidence is a number and whose reason is
\* a string; force_tool_usage may be absent
ValidRouterData(reply) ==
    /\ reply.shape = "dict"
    /\ reply.intent \in IntentTypes
    /\ reply.confidence \in NumberTexts
    /\ reply.reason # Absent

\* _llm_classification lines 102-116
_llm_classification(query, context, reply) ==
    IF reply.kind = "exception" THEN _fallback_classification(query)
    ELSE IF reply.kind = "text" THEN _fallback_classification(query)
    ELSE IF ~ValidRouterData(reply) THEN _fallback_classification(query)
    ELSE RouterResponse(reply.intent, reply.confidence, reply.reason,
                        reply.force_tool_usage = "true", FALSE)

\* classify_intent lines 35-39: the context is extracted and the model
\* asked; an exception of the extraction leaves the call
classify_intent(user_query, conversation_history, reply) ==
    LET conv_context == extract_conversation_context(conversation_history)
    IN  IF conv_context.raised
        THEN [RouterResponse(Absent, "", "", FALSE, FALSE) EXCEPT !.raised = TRUE]
        ELSE _llm_classification(user_query, conv_context, reply)

\* the invocations of the completion capability classify_intent makes
LlmCallsOfClassify(user_query, conversation_history) ==
    IF extract_conversation_context(conversation_history).raised THEN 0 ELSE 1

(***************************************************************************)
(* Initial states.                                                         *)
(***************************************************************************)
\* EnhancedToolOrchestrator.__init__ and SchemaIndex.__init__: an empty
\* distinct-value cache; the schema cache holds what get_schema_info
\* returned, nothing when its query failed
InitInstance ==
    /\ distinct_cache = {}
    /\ schema_cache \in {SchemaInfoTables, {}}

InitLoop ==
    /\ pc = "idle"
    /\ max_turns = 0
    /\ force_tool_usage = FALSE
    /\ turn = 0
    /\ tool_calls = <<>>
    /\ call_ix = 1
    /\ tool_trace = <<>>
    /\ retrieved_ids = <<>>
    /\ tool_messages = <<>>
    /\ messages = <<>>
    /\ last_sql = NoneText
    /\ last_sql_result = NoResult
    /\ chat_calls = 0
    /\ tool_choice = "auto"
    /\ attempt = 0
    /\ backoff = 0
    /\ response = NoResponse

\* the instances of two sessions, and an instance as __init__ leaves it
\* (lines 207-208) with no loop running
Sessions == {"s1", "s2"}

IdleSession ==
    [distinct_cache |-> {}, schema_cache |-> SchemaInfoTables, pc |-> "idle",
     max_turns |-> 0, turn |-> 0, tool_calls |-> <<>>, call_ix |-> 1,
     tool_trace |-> <<>>]

InitSessions == sessions = [i \in Sessions |-> IdleSession]

InitCall ==
    /\ executed = <<>>
    /\ last_call = NoCall
    /\ exec_result = "none"

InitGuard ==
    /\ g_sql = <<>>
    /\ g_validation = NoValidation
    /\ g_first = NoValidation

\* r_reply before classify_intent was called
NoReply == [kind |-> "none"]

\* r_classification before classify_intent has returned
NoClassification == RouterResponse(Absent, "", "", FALSE, FALSE)

\* h_context before extract_conversation_context has returned
NoContextYet == [NoContext EXCEPT !.last_response_type = "<pending>"]

\* s_call and s_result before any call on the schema index
NoIndexCall ==
    [name |-> "none", tables |-> <<>>, keyword |-> "", limit |-> 0,
     live |-> FALSE, listing |-> <<>>]

NoIndexResult == [exists |-> FALSE, tables |-> <<>>, hint |-> Absent]

\* no call on the schema index is followed
InitSchemaIdle ==
    /\ s_db = {}
    /\ s_index = <<>>
    /\ s_call = NoIndexCall
    /\ s_result = NoIndexResult

InitQuery ==
    /\ h_history = <<>>
    /\ h_context = NoContextYet
    /\ r_query = ""
    /\ r_reply = NoReply
    /\ r_classification = NoClassification
    /\ r_llm_calls = 0

Init ==
    InitInstance /\ InitLoop /\ InitCall /\ InitSessions /\ InitGuard /\ InitQuery /\ InitSchemaIdle

(***************************************************************************)
(* _execute_tool_loop, one action per step between two suspension points.  *)
(***************************************************************************)
\* lines 296-301: the loop is entered with its locals fresh
EnterLoop(budget, force) ==
    /\ pc' = "await_model"
    /\ max_turns' = budget
    /\ force_tool_usage' = force
    /\ turn' = 0
    /\ tool_calls' = <<>>
    /\ call_ix' = 1
    /\ tool_trace' = <<>>
    /\ retrieved_ids' = <<>>
    /\ tool_messages' = <<>>
    /\ messages' = <<>>
    /\ last_sql' = NoneText
    /\ last_sql_result' = NoResult
    /\ chat_calls' = 0
    /\ tool_choice' = "auto"
    /\ attempt' = 0
    /\ backoff' = 0
    /\ response' = NoResponse

\* _execute_tool_loop called with a budget and a classification
StartLoop(budget, force) ==
    /\ pc = "idle"
    /\ EnterLoop(budget, force)
    /\ UNCHANGED <<instance_vars, executed, last_call, exec_result, guard_vars, schema_vars, query_vars, sessions>>

\* line 302 without the test of the turn
ToolChoiceEveryTurn == IF force_tool_usage THEN "required" ELSE "auto"

\* line 302
ToolChoice == IF force_tool_usage /\ turn = 0 THEN "required" ELSE "auto"

\* the loop head with the budget test off by one (turn <= max_turns)
TurnAllowedOffByOne == turn <= max_turns

\* the loop head: line 301 lets a turn start only below the budget
TurnAllowed == turn < max_turns

\* lines 306-319: messages.append(assistant_record), the record carrying
\* the ids of its tool calls; a call is identified by its turn and its place
MessagesWithAssistant(msgs, t, calls) ==
    Append(msgs, [role |-> "assistant", tool_call_id |-> <<>>,
                  tool_call_ids |-> [k \in 1..Len(calls) |-> <<t, k>>]])

\* the tool message put in front of the list
MessagesWithToolFirst(msgs, t, ix) ==
    <<[role |-> "tool", tool_call_id |-> <<t, ix>>, tool_call_ids |-> <<>>]>> \o msgs

\* line 378: messages.append({"role": "tool", "tool_call_id": call_id, ...})
MessagesWithTool(msgs, t, ix) ==
    Append(msgs, [role |-> "tool", tool_call_id |-> <<t, ix>>, tool_call_ids |-> <<>>])

\* _openai_chat giving up one attempt early
LastAttemptEarly(n) == n = max_retries - 2

\* line 425: attempt == max_retries - 1
LastAttempt(n) == n = max_retries - 1

\* line 429: time.sleep(2 ** attempt)
Backoff(n) == 2 ^ n

\* _openai_chat lines 415-429: the create call of this attempt raised and
\* it was not the last one; the invocation sleeps and tries again
ChatAttemptFails ==
    /\ pc = "await_model"
    /\ TurnAllowed
    /\ ~LastAttempt(attempt)
    /\ backoff' = Backoff(attempt)
    /\ attempt' = attempt + 1
    /\ tool_choice' = ToolChoice
    /\ UNCHANGED <<instance_vars, pc, max_turns, force_tool_usage, turn, tool_calls,
                   call_ix, tool_trace, retrieved_ids, tool_messages, messages, last_sql,
                   last_sql_result, chat_calls, response, executed, last_call,
                   exec_result, guard_vars, schema_vars, query_vars, sessions>>

\* lines 303-334 when the message carries no tool call: the plain text of
\* the model from the create call of this attempt, or the fixed text of
\* _openai_chat (line 428) when the create call of the last attempt raised
ModelAnswers(text) ==
    /\ pc = "await_model"
    /\ TurnAllowed
    /\ text = "answer" => ToolChoice = "auto"
    /\ text = TechnicalDifficulties => LastAttempt(attempt)
    /\ chat_calls' = chat_calls + 1
    /\ tool_choice' = ToolChoice
    /\ attempt' = 0
    /\ backoff' = 0
    /\ tool_calls' = <<>>
    /\ response' = AgentResponse(text, last_sql, retrieved_ids, tool_trace,
                                 turn + 1, FALSE, last_sql_result)
    /\ messages' = MessagesWithAssistant(messages, turn, <<>>)
    /\ pc' = "done"
    /\ UNCHANGED <<instance_vars, max_turns, force_tool_usage, turn, call_ix,
                   tool_trace, retrieved_ids, tool_messages, last_sql, last_sql_result,
                   executed, last_call, exec_result, guard_vars, schema_vars, query_vars, sessions>>

\* lines 303-319 when the create call of this attempt returns a message
\* that carries tool calls
ModelCallsTools(calls) ==
    /\ pc = "await_model"
    /\ TurnAllowed
    /\ chat_calls' = chat_calls + 1
    /\ tool_choice' = ToolChoice
    /\ attempt' = 0
    /\ backoff' = 0
    /\ tool_calls' = calls
    /\ call_ix' = 1
    /\ messages' = MessagesWithAssistant(messages, turn, calls)
    /\ pc' = "dispatch"
    /\ UNCHANGED <<instance_vars, max_turns, force_tool_usage, turn, tool_trace,
                   retrieved_ids, tool_messages, last_sql, last_sql_result, response,
                   executed, last_call, exec_result, guard_vars, schema_vars, query_vars, sessions>>

\* lines 351-361: what a run_sql_query result leaves in last_sql_result
SqlResultOf(result) ==
    [NoResult EXCEPT !.success = result.success, !.data_preview = result.data_preview,
                     !.error = result.error]

\* a loop that never returns on a successful query
ShortCircuitNever(name, result) == FALSE

\* line 362 testing the preview instead of the success flag
ShortCircuitOnPreview(name, result) ==
    name = "run_sql_query" /\ result.error # "must_fetch_distinct_values"
    /\ result.data_preview # ""

\* line 362: the query succeeded and the loop returns at once
ShortCircuit(name, result) ==
    name = "run_sql_query" /\ result.error # "must_fetch_distinct_values" /\ result.success

\* the loop variable advancing by two
NextTurnSkipsOne == turn + 2

\* line 301: range(max_turns) hands out the next turn
NextTurn == turn + 1

\* line 378: messages.append({"role": "tool", "tool_call_id": call_id,
\* "content": json.dumps(result)}); a call is identified by its turn and
\* its place in the assistant message
ToolMessagesWith(msgs, t, ix, result) ==
    Append(msgs, [tool_call_id |-> <<t, ix>>, content |-> result])

\* the entry put in front of the trace instead of behind it
TraceWithNewestFirst(trace, name, args, result) ==
    <<[tool |-> name, args |-> args, result |-> result]>> \o trace

\* line 347: tool_trace.append({"tool": name, "args": args, "result": result})
TraceWith(trace, name, args, result) ==
    Append(trace, [tool |-> name, args |-> args, result |-> result])

\* lines 347-378: what the loop does with the outcome o of _execute_tool
RecordToolResult(call, o) ==
    LET name == call.name
        result == o.result
        trace2 == TraceWith(tool_trace, name, call.args, result)
        ids2 == IF name = "retrieve_docs" THEN retrieved_ids \o result.docs
                ELSE retrieved_ids
        records == name = "run_sql_query" /\ result.error # "must_fetch_distinct_values"
        sql2 == IF records THEN result.sql_used ELSE last_sql
        res2 == IF records THEN SqlResultOf(result) ELSE last_sql_result
    IN  /\ distinct_cache' = o.distinct_cache
        /\ schema_cache' = o.schema_cache
        /\ executed' = o.executed
        /\ last_call' = [name |-> name, args |-> call.args, result |-> result]
        /\ tool_trace' = trace2
        /\ retrieved_ids' = ids2
        /\ tool_messages' = IF ShortCircuit(name, result) THEN tool_messages
                            ELSE ToolMessagesWith(tool_messages, turn, call_ix, result)
        /\ messages' = IF ShortCircuit(name, result) THEN messages
                       ELSE MessagesWithTool(messages, turn, call_ix)
        /\ last_sql' = sql2
        /\ last_sql_result' = res2
        /\ IF ShortCircuit(name, result)
           THEN /\ response' = AgentResponse(
                        IF result.data_preview # "" THEN result.data_preview
                        ELSE ExecutedSuccessfully,
                        sql2, ids2, trace2, turn + 1, FALSE, res2)
                /\ pc' = "done"
                /\ UNCHANGED <<turn, call_ix, sessions>>
           ELSE /\ response' = response
                /\ IF call_ix = Len(tool_calls)
                   THEN pc' = "await_model" /\ turn' = NextTurn /\ call_ix' = 1
                   ELSE pc' = "dispatch" /\ turn' = turn /\ call_ix' = call_ix + 1

\* lines 336-378: one iteration of the for loop over tool_calls
DispatchToolCall(ext) ==
    /\ pc = "dispatch"
    /\ call_ix <= Len(tool_calls)
    /\ ext \in ExtFor(tool_calls[call_ix].name)
    /\ \E o \in {_execute_tool(tool_calls[call_ix].name, tool_calls[call_ix].args,
                               distinct_cache, schema_cache, ext)} :
          /\ RecordToolResult(tool_calls[call_ix], o)
          /\ exec_result' = ExecResult(o.executed, ext)
    /\ UNCHANGED <<max_turns, force_tool_usage, tool_calls, chat_calls, tool_choice,
                   attempt, backoff, guard_vars, schema_vars, query_vars, sessions>>

\* lines 380-410 without the max_turns_reached entry of execution_info
ExhaustionResponseUnflagged ==
    AgentResponse(IF last_sql_result.success
                  THEN (IF last_sql_result.data_preview # ""
                        THEN last_sql_result.data_preview ELSE ExecutedSuccessfully)
                  ELSE Apology,
                  last_sql, retrieved_ids, tool_trace, max_turns, FALSE, last_sql_result)

\* lines 380-410: the response built once the turns are used up
ExhaustionResponse ==
    IF last_sql_result.success
    THEN AgentResponse(IF last_sql_result.data_preview # ""
                       THEN last_sql_result.data_preview ELSE ExecutedSuccessfully,
                       last_sql, retrieved_ids, tool_trace, max_turns, TRUE,
                       last_sql_result)
    ELSE AgentResponse(Apology, last_sql, retrieved_ids, tool_trace, max_turns,
                       TRUE, last_sql_result)

\* lines 380-410: the for loop over the turns is exhausted
BudgetExhausted ==
    /\ pc = "await_model"
    /\ ~TurnAllowed
    /\ response' = ExhaustionResponse
    /\ pc' = "done"
    /\ UNCHANGED <<instance_vars, max_turns, force_tool_usage, turn, tool_calls, call_ix,
                   tool_trace, retrieved_ids, tool_messages, messages, last_sql, last_sql_result, chat_calls,
                   tool_choice, attempt, backoff, executed, last_call, exec_result,
                   guard_vars, schema_vars, query_vars, sessions>>

LoopStep ==
    \/ ChatAttemptFails
    \/ \E text \in {"answer", TechnicalDifficulties} : ModelAnswers(text)
    \/ \E calls \in AssistantToolCalls : ModelCallsTools(calls)
    \/ \E ext \in ExtOutcomes : DispatchToolCall(ext)
    \/ BudgetExhausted

Next ==
    \/ \E budget \in 1..MaxTurns, force \in BOOLEAN : StartLoop(budget, force)
    \/ LoopStep

Spec == Init /\ [][Next]_vars

(***************************************************************************)
(* Tool calls on one orchestrator instance, whatever loop issues them.     *)
(***************************************************************************)
\* _execute_tool(name, args)
ExecuteToolCall(call, ext) ==
    /\ ext \in ExtFor(call.name)
    /\ \E o \in {_execute_tool(call.name, call.args, distinct_cache, schema_cache, ext)} :
          /\ distinct_cache' = o.distinct_cache
          /\ schema_cache' = o.schema_cache
          /\ executed' = o.executed
          /\ exec_result' = ExecResult(o.executed, ext)
          /\ last_call' = [name |-> call.name, args |-> call.args, result |-> o.result]
    /\ UNCHANGED <<loop_vars, guard_vars, schema_vars, query_vars, sessions>>

NextTools ==
    \E call \in ToolCalls : \E ext \in ExtFor(call.name) : ExecuteToolCall(call, ext)

SpecTools == Init /\ [][NextTools]_vars

(***************************************************************************)
(* SqlGuard.validate_sql applied to a statement.                           *)
(***************************************************************************)
InitValidate ==
    /\ InitInstance /\ InitLoop /\ InitCall /\ InitSessions /\ InitQuery /\ InitSchemaIdle
    /\ g_sql \in GuardTexts
    /\ g_validation = NoValidation
    /\ g_first = NoValidation

ValidateSql ==
    /\ g_validation = NoValidation
    /\ g_validation' = validate_sql(g_sql)
    /\ UNCHANGED <<instance_vars, loop_vars, query_vars, schema_vars, executed, last_call, exec_result, g_sql, g_first, sessions>>

\* validate_sql applied a second time, to the corrected text it returned
\* for a statement it accepted
RevalidateCorrected ==
    /\ g_first = NoValidation
    /\ g_validation # NoValidation
    /\ g_validation.is_valid
    /\ g_validation.corrected_sql # NoneText
    /\ g_first' = g_validation
    /\ g_sql' = g_validation.corrected_sql
    /\ g_validation' = validate_sql(g_validation.corrected_sql)
    /\ UNCHANGED <<instance_vars, loop_vars, query_vars, schema_vars, executed, last_call, exec_result, sessions>>

NextGuard == ValidateSql \/ RevalidateCorrected

SpecGuard == InitValidate /\ [][NextGuard]_vars

(***************************************************************************)
(* ConversationManager.extract_conversation_context applied to a history.  *)
(***************************************************************************)
\* longest chat history supplied
MaxHistoryLen == 12

\* SELECT <dim>, COUNT(*) FROM <table> GROUP BY <dim> LIMIT 500
SqlGrouped(dim, table) ==
    <<"SELECT", dim, ",", "COUNT(*)", "FROM", table, "GROUP", "BY", dim,
      "LIMIT", "500">>

\* SELECT a, b, COUNT(*) FROM prod.u GROUP BY a, b
SqlGroupedTwice ==
    <<"SELECT", "a", ",", "b", ",", "COUNT(*)", "FROM", "prod.u", "GROUP", "BY",
      "a", ",", "b">>

UserTurn == Message("user", NoMetadata)

\* the turns of a history other than plain user turns: assistant answers
\* with SQL and a chart id, with SQL only, with chart ids only, without
\* metadata and with null metadata, and a user turn that carries metadata
MarkedTurns ==
    {Message("assistant", Metadata(SqlGrouped(dim, table), <<10>>)) :
        dim \in {"a", "district"}, table \in {"prod.t", "staging.t"}}
    \cup {Message("assistant", Metadata(SqlGroupedTwice, <<>>)),
          Message("assistant", Metadata(<<>>, <<1, 50>>)),
          Message("assistant", NoMetadata),
          Message("assistant", NullMetadata),
          Message("user", Metadata(SqlGrouped("x", "prod.t"), <<100>>))}

\* the history of n turns that has turn m1 at place p1, turn m2 at place
\* p2 and plain user turns elsewhere; a place 0 marks no turn
History(n, p1, m1, p2, m2) ==
    [i \in 1..n |-> IF i = p1 THEN m1 ELSE IF i = p2 THEN m2 ELSE UserTurn]

InitContext ==
    /\ InitInstance /\ InitLoop /\ InitCall /\ InitSessions /\ InitGuard /\ InitSchemaIdle
    /\ r_query = ""
    /\ r_reply = NoReply
    /\ r_classification = NoClassification
    /\ r_llm_calls = 0
    /\ \E n \in 0..MaxHistoryLen :
         \E p1 \in 0..n, p2 \in 0..n, m1 \in MarkedTurns, m2 \in MarkedTurns :
            h_history = History(n, p1, m1, p2, m2)
    /\ h_context = NoContextYet

ExtractContext ==
    /\ h_context = NoContextYet
    /\ h_context' = extract_conversation_context(h_history)
    /\ UNCHANGED <<instance_vars, loop_vars, executed, last_call, exec_result,
                   guard_vars, schema_vars, h_history, r_query, r_reply, r_classification,
                   r_llm_calls, sessions>>

SpecContext == InitContext /\ [][ExtractContext]_vars

(***************************************************************************)
(* EnhancedIntentRouter.classify_intent applied to a query and a history.  *)
(***************************************************************************)
\* the histories classify_intent is given: none, one whose last answer has
\* SQL and a chart id, one whose last answer has chart ids only, one
\* without earlier answers, one whose last answer has null metadata
RouterHistories ==
    {<<>>,
     <<UserTurn, Message("assistant", Metadata(SqlGrouped("a", "prod.t"), <<10>>))>>,
     <<UserTurn, Message("assistant", Metadata(<<>>, <<1, 50>>))>>,
     <<UserTurn, Message("assistant", NoMetadata)>>,
     <<UserTurn, Message("assistant", NullMetadata)>>}

InitRouter ==
    /\ InitInstance /\ InitLoop /\ InitCall /\ InitSessions /\ InitGuard /\ InitSchemaIdle
    /\ h_history \in RouterHistories
    /\ h_context = NoContextYet
    /\ r_query \in Queries
    /\ r_reply = NoReply
    /\ r_classification = NoClassification
    /\ r_llm_calls = 0

\* classify_intent(user_query, conversation_history), the completion
\* capability behaving as `reply` says
ClassifyIntent(reply) ==
    /\ r_reply = NoReply
    /\ r_reply' = reply
    /\ h_context' = extract_conversation_context(h_history)
    /\ r_classification' = classify_intent(r_query, h_history, reply)
    /\ r_llm_calls' = LlmCallsOfClassify(r_query, h_history)
    /\ UNCHANGED <<instance_vars, loop_vars, executed, last_call, exec_result,
                   guard_vars, schema_vars, h_history, r_query, sessions>>

NextRouter == \E reply \in LlmReplies : ClassifyIntent(reply)

SpecRouter == InitRouter /\ [][NextRouter]_vars

(***************************************************************************)
(* EnhancedToolOrchestrator.process_query.                                 *)
(***************************************************************************)
\* _handle_follow_up_query line 278: max_turns=6
follow_up_max_turns == 6

\* _handle_new_query line 292: max_turns=15
new_query_max_turns == 15

\* _handle_simple_intent lines 243-248: the reply of the small-talk model
\* call or the fixed greeting of _generate_small_talk_response, and the two
\* fixed texts
SimpleTexts(intent) ==
    CASE intent = "small_talk" -> {"small talk reply", "Hi! I can help."}
      [] intent = "irrelevant" -> {"I can help with questions about program data."}
      [] OTHER                 -> {"Could you be more specific?"}

\* lines 250-259: the AgentResponse of _handle_simple_intent, whose
\* execution_info has neither tool calls nor turns
SimpleResponse(text) ==
    AgentResponse(text, NoneText, <<>>, <<>>, 0, FALSE, NoResult)

\* the two budgets exchanged
BudgetOfSwapped(intent) ==
    IF intent \in {"follow_up_sql", "follow_up_context"} THEN new_query_max_turns
    ELSE follow_up_max_turns

\* lines 229-238: the turn budget of the handler the intent is routed to
BudgetOf(intent) ==
    IF intent \in {"follow_up_sql", "follow_up_context"} THEN follow_up_max_turns
    ELSE new_query_max_turns

\* the queries, histories and classifier answers process_query is given
QueryHistories ==
    {<<>>,
     <<UserTurn, Message("assistant", Metadata(SqlGrouped("a", "prod.t"), <<10>>))>>,
     <<UserTurn, Message("assistant", NullMetadata)>>}

QueryTexts == {"hi", "how many cases", "now by district"}

QueryReplies ==
    {[kind |-> "exception"]}
    \cup {JsonDict(i, "0.85", "model", f) : i \in IntentTypes, f \in {"true", "false"}}

\* process_query lines 223-238
ProcessQuery(user_query, conversation_history, reply) ==
    LET conv_context == extract_conversation_context(conversation_history)
        intent_response == classify_intent(user_query, conversation_history, reply)
    IN  /\ pc = "idle"
        /\ h_history' = conversation_history
        /\ h_context' = conv_context
        /\ r_query' = user_query
        /\ r_reply' = reply
        /\ r_classification' = intent_response
        /\ r_llm_calls' = LlmCallsOfClassify(user_query, conversation_history)
        /\ IF conv_context.raised \/ intent_response.raised
           THEN \* the AttributeError of line 224 leaves process_query
                /\ pc' = "raised"
                /\ UNCHANGED <<max_turns, force_tool_usage, turn, tool_calls, call_ix,
                               tool_trace, retrieved_ids, tool_messages, messages, last_sql, last_sql_result,
                               chat_calls, tool_choice, attempt, backoff, response>>
           ELSE IF intent_response.intent \in
                       {"small_talk", "irrelevant", "needs_clarification"}
           THEN /\ pc' = "done"
                /\ \E text \in SimpleTexts(intent_response.intent) :
                      response' = SimpleResponse(text)
                /\ UNCHANGED <<max_turns, force_tool_usage, turn, tool_calls, call_ix,
                               tool_trace, retrieved_ids, tool_messages, messages, last_sql, last_sql_result,
                               chat_calls, tool_choice, attempt, backoff>>
           ELSE EnterLoop(BudgetOf(intent_response.intent),
                          intent_response.force_tool_usage)
        /\ UNCHANGED <<instance_vars, executed, last_call, exec_result, guard_vars, schema_vars, sessions>>

\* _openai_chat line 430: the create call returned a response without
\* choices; the IndexError leaves _openai_chat, the loop and process_query
ChatReturnsNoChoices ==
    /\ pc = "await_model"
    /\ TurnAllowed
    /\ pc' = "raised"
    /\ UNCHANGED <<instance_vars, max_turns, force_tool_usage, turn, tool_calls,
                   call_ix, tool_trace, retrieved_ids, tool_messages, messages, last_sql, last_sql_result,
                   chat_calls, tool_choice, attempt, backoff, response, executed,
                   last_call, exec_result, guard_vars, schema_vars, query_vars, sessions>>

\* the tool calls the completion capability asks for: on the first turn
\* a query, a filtered query after its distinct values, or an unknown
\* tool; on every later turn the unknown tool again
FirstTurnToolCalls == {<<CallPlain>>, <<CallDistinct, CallFiltered>>, <<CallUnknown>>}

LaterTurnToolCalls == {<<CallUnknown>>}

NextQuery ==
    \/ \E user_query \in QueryTexts, conversation_history \in QueryHistories,
          reply \in QueryReplies :
          ProcessQuery(user_query, conversation_history, reply)
    \/ ChatAttemptFails
    \/ ChatReturnsNoChoices
    \/ \E text \in {"answer", TechnicalDifficulties} : ModelAnswers(text)
    \/ \E calls \in (IF turn = 0 THEN FirstTurnToolCalls ELSE LaterTurnToolCalls) :
          ModelCallsTools(calls)
    \/ \E ext \in ExtOutcomes : DispatchToolCall(ext)
    \/ BudgetExhausted

SpecQuery == Init /\ [][NextQuery]_vars

(***************************************************************************)
(* The schema index in dict order, and the two schema tools that read it.  *)
(***************************************************************************)
\* the tables a database may hold, and the names a tool call may ask for
IndexTables == {"prod.x", "staging.x", "dev_prod.x", "prod_gender.x", "staging.y"}

RequestTables == IndexTables \cup {"x"}

\* table.split(".", 1)[0] if "." in table else ""
SchemaPart(table) ==
    CASE table = "prod.x"                    -> "prod"
      [] table \in {"staging.x", "staging.y"} -> "staging"
      [] table = "dev_prod.x"                -> "dev_prod"
      [] table = "prod_gender.x"             -> "prod_gender"
      [] OTHER                               -> ""

\* table.split(".", 1)[1] if "." in table else table
BasePart(table) == IF table = "staging.y" THEN "y" ELSE "x"

\* table.startswith("prod.")
StartsWithProdDot(table) == table = "prod.x"

\* f"prod.{base}"
ProdCandidate(base) == IF base = "x" THEN "prod.x" ELSE "prod.y"

\* the columns information_schema lists for a table, by ordinal position
IndexColumns(table) ==
    CASE table = "prod.x"        -> <<"id", "district">>
      [] table = "staging.x"     -> <<"id", "district", "notes">>
      [] table = "dev_prod.x"    -> <<"id">>
      [] table = "prod_gender.x" -> <<"id", "district">>
      [] table = "staging.y"     -> <<"id", "district">>
      [] OTHER                   -> <<>>

\* PostgresExecutor.get_schema_info: the tables of prod, staging and
\* intermediate, ORDER BY table_schema, table_name; {} when the query fails
SchemaInfoOrder == <<"prod.x", "staging.x", "staging.y">>

get_schema_info(db, live) ==
    IF live THEN SelectSeq(SchemaInfoOrder, LAMBDA t : t \in db) ELSE <<>>

\* PostgresExecutor.get_table_columns_live on a database holding db
LiveColumns(table, db, live) ==
    IF live /\ table \in db THEN IndexColumns(table) ELSE <<>>

\* SchemaIndex.table_exists on the keys of _schema_cache in dict order:
\* [exists, index]
IndexTableExists(table, index, db, live) ==
    IF table \in Range(index) THEN [exists |-> TRUE, index |-> index]
    ELSE IF table # "x" /\ LiveColumns(table, db, live) # <<>>
    THEN [exists |-> TRUE, index |-> Append(index, table)]
    ELSE [exists |-> FALSE, index |-> index]

\* SchemaIndex.get_table_columns: [columns, index]
IndexTableColumns(table, index, db, live) ==
    IF table \in Range(index)
    THEN [columns |-> IndexColumns(table), index |-> index]
    ELSE IF table # "x" /\ LiveColumns(table, db, live) # <<>>
    THEN [columns |-> IndexColumns(table), index |-> Append(index, table)]
    ELSE [columns |-> <<>>, index |-> index]

\* SchemaIndex.list_tables()
list_tables(index) == index

\* a ranking that puts every schema on one level
SchemaRankFlat(table) == 1

\* lines 592-598: the rank of a table by its schema
SchemaRank(table) ==
    IF SchemaPart(table) \in {"prod", "prod_gender"} THEN 0 - 1
    ELSE IF SchemaPart(table) = "dev_prod" THEN 0
    ELSE 1

\* lines 599-601: preferred[base] = ... unless an entry of the same or a
\* better rank is there; a dict keeps the place of a key it already holds
RECURSIVE Prefer(_, _)
Prefer(preferred, entry) ==
    IF preferred = <<>> THEN <<entry>>
    ELSE IF Head(preferred).base = entry.base
    THEN IF entry.rank < Head(preferred).rank
         THEN <<entry>> \o Tail(preferred)
         ELSE preferred
    ELSE <<Head(preferred)>> \o Prefer(Tail(preferred), entry)

\* lines 565-601: the loop over the requested tables: [preferred, index]
RECURSIVE SnippetScan(_, _, _, _, _)
SnippetScan(tables, preferred, index, db, live) ==
    IF tables = <<>> THEN [preferred |-> preferred, index |-> index]
    ELSE LET requested == Head(tables)
             base == BasePart(requested)
             prod_candidate == ProdCandidate(base)
             te == IF StartsWithProdDot(requested)
                   THEN [exists |-> FALSE, index |-> index]
                   ELSE IndexTableExists(prod_candidate, index, db, live)
             table == IF te.exists THEN prod_candidate ELSE requested
             got == IndexTableColumns(table, te.index, db, live)
         IN  IF got.columns = <<>>
             THEN SnippetScan(Tail(tables), preferred, got.index, db, live)
             ELSE SnippetScan(Tail(tables),
                              Prefer(preferred,
                                     [base |-> base, table |-> table,
                                      columns |-> got.columns,
                                      rank |-> SchemaRank(table)]),
                              got.index, db, live)

\* list.sort(key=len(columns), reverse=True): stable, the longest first
RECURSIVE InsertByColumns(_, _)
InsertByColumns(sorted, s) ==
    IF sorted = <<>> THEN <<s>>
    ELSE IF Len(Head(sorted).columns) >= Len(s.columns)
    THEN <<Head(sorted)>> \o InsertByColumns(Tail(sorted), s)
    ELSE <<s>> \o sorted

RECURSIVE SortByColumns(_)
SortByColumns(snippets) ==
    IF snippets = <<>> THEN <<>>
    ELSE InsertByColumns(SortByColumns(Take(snippets, Len(snippets) - 1)),
                         snippets[Len(snippets)])

\* _tool_get_schema_snippets(args), self.dbt_helper being None: [result, index]
_tool_get_schema_snippets(args, index, db, live) ==
    LET scan == SnippetScan(args.tables, <<>>, index, db, live)
        snippets == [i \in 1..Len(scan.preferred) |->
                        [table |-> scan.preferred[i].table,
                         columns |-> scan.preferred[i].columns]]
    IN  [result |-> [tables |-> SortByColumns(snippets)], index |-> scan.index]

\* the keywords a call may carry, and (args.get("keyword") or "").lower().strip()
Keywords == {"x", " X ", "district", "zzz", ""}

NormalKeyword(keyword) == IF keyword = " X " THEN "x" ELSE keyword

\* keyword in text, for the keywords above
KeywordIn(keyword, text) ==
    \/ keyword = "x" /\ text \in {"prod.x", "staging.x", "dev_prod.x", "prod_gender.x"}
    \/ keyword = "district" /\ text = "district"

\* line 614: the default of the argument limit
default_keyword_limit == 15

\* the values of the argument limit
Limits == {1, 2, default_keyword_limit}

\* a test that lets every schema through
AnySchema(schema) == TRUE

\* lines 624-626: schema in ['prod', 'staging', 'intermediate'] and not
\* schema.startswith('dev_'), schema being lower-cased
CleanSchema(schema) == schema \in {"prod", "staging", "intermediate"}

\* lines 622-634: the loop over list_tables(): the matches appended so far
RECURSIVE KeywordScan(_, _, _, _)
KeywordScan(listing, keyword, limit, clean_matches) ==
    IF listing = <<>> THEN clean_matches
    ELSE LET tbl == Head(listing)
             col_names == IndexColumns(tbl)
             found ==
                 IF /\ CleanSchema(SchemaPart(tbl))
                    /\ \/ KeywordIn(keyword, tbl)
                       \/ \E i \in 1..Len(col_names) : KeywordIn(keyword, col_names[i])
                 THEN Append(clean_matches, [table |-> tbl, columns |-> col_names])
                 ELSE clean_matches
         IN  IF ~CleanSchema(SchemaPart(tbl))
             THEN KeywordScan(Tail(listing), keyword, limit, clean_matches)
             ELSE IF Len(found) >= limit THEN found
             ELSE KeywordScan(Tail(listing), keyword, limit, found)

\* _tool_list_tables_by_keyword(args)
_tool_list_tables_by_keyword(args, index) ==
    LET keyword == NormalKeyword(args.keyword)
        all_tables == KeywordScan(list_tables(index), keyword, args.limit, <<>>)
        kept == Take(all_tables, Min({args.limit, Len(all_tables)}))
    IN  IF keyword = "" THEN [tables |-> <<>>, hint |-> Absent]
        ELSE IF kept # <<>> THEN [tables |-> kept, hint |-> "found"]
        ELSE [tables |-> <<>>, hint |-> "try broader"]

(***************************************************************************)
(* The schema tools called on one SchemaIndex.                             *)
(***************************************************************************)
\* the databases the index is built on
Databases == {IndexTables, IndexTables \ {"prod.x"}}

\* the lists of tables a get_schema_snippets call asks for: none, one, or
\* two different tables
SnippetRequests ==
    {<<>>} \cup {<<t>> : t \in RequestTables}
           \cup {p \in IndexTables \X IndexTables : p[1] # p[2]}

\* SchemaIndex.__init__: _load_schema_cache keeps what get_schema_info returns
InitSchema ==
    /\ InitLoop /\ InitCall /\ InitSessions /\ InitGuard /\ InitQuery
    /\ distinct_cache = {}
    /\ s_db \in Databases
    /\ \E live \in BOOLEAN : s_index = get_schema_info(s_db, live)
    /\ schema_cache = Range(s_index)
    /\ s_call = NoIndexCall
    /\ s_result = NoIndexResult

\* self.schema_index.table_exists(table), as the SQL guard calls it
TableExists(table, live) ==
    /\ \E te \in {IndexTableExists(table, s_index, s_db, live)} :
          /\ s_index' = te.index
          /\ s_result' = [NoIndexResult EXCEPT !.exists = te.exists]
    /\ schema_cache' = Range(s_index')
    /\ s_call' = [name |-> "table_exists", tables |-> <<table>>, keyword |-> "",
                  limit |-> 0, live |-> live, listing |-> s_index]
    /\ UNCHANGED <<distinct_cache, s_db, loop_vars, executed, last_call,
                   exec_result, guard_vars, query_vars, sessions>>

\* _tool_get_schema_snippets({"tables": tables})
GetSchemaSnippets(tables, live) ==
    /\ \E o \in {_tool_get_schema_snippets([tables |-> tables], s_index, s_db, live)} :
          /\ s_index' = o.index
          /\ s_result' = [NoIndexResult EXCEPT !.tables = o.result.tables]
    /\ schema_cache' = Range(s_index')
    /\ s_call' = [name |-> "get_schema_snippets", tables |-> tables, keyword |-> "",
                  limit |-> 0, live |-> live, listing |-> s_index]
    /\ UNCHANGED <<distinct_cache, s_db, loop_vars, executed, last_call,
                   exec_result, guard_vars, query_vars, sessions>>

\* _tool_list_tables_by_keyword({"keyword": keyword, "limit": limit})
ListTablesByKeyword(keyword, limit) ==
    /\ \E o \in {_tool_list_tables_by_keyword([keyword |-> keyword, limit |-> limit],
                                              s_index)} :
          s_result' = [NoIndexResult EXCEPT !.tables = o.tables, !.hint = o.hint]
    /\ s_call' = [name |-> "list_tables_by_keyword", tables |-> <<>>,
                  keyword |-> keyword, limit |-> limit, live |-> TRUE,
                  listing |-> s_index]
    /\ UNCHANGED <<instance_vars, s_index, s_db, loop_vars, executed, last_call,
                   exec_result, guard_vars, query_vars, sessions>>

NextSchema ==
    \/ \E table \in IndexTables, live \in BOOLEAN : TableExists(table, live)
    \/ \E tables \in SnippetRequests, live \in BOOLEAN : GetSchemaSnippets(tables, live)
    \/ \E keyword \in Keywords, limit \in Limits : ListTablesByKeyword(keyword, limit)

SpecSchema == InitSchema /\ [][NextSchema]_vars

(***************************************************************************)
(* Two orchestrator instances, one per session, whose loops interleave.    *)
(***************************************************************************)
\* the budgets of the loops, the tool calls an assistant message carries and
\* the outcomes of the database in this specification
SessionBudgets == {1, 2}

SessionToolCalls == {<<CallDistinct>>, <<CallFiltered>>, <<CallDistinct, CallFiltered>>}

SessionExt == {[NoExt EXCEPT !.exec = e] : e \in {"rows", "error"}}

\* one set of fetched pairs for all the instances
SharedCache(all, i) == UNION {all[j].distinct_cache : j \in Sessions}

\* self._distinct_cache of instance i (line 208: an attribute set in __init__)
CacheOf(all, i) == all[i].distinct_cache

\* lines 296-301 in instance i
SessionStart(i, budget) ==
    /\ sessions[i].pc = "idle"
    /\ sessions' = [sessions EXCEPT ![i] =
                       [@ EXCEPT !.pc = "await_model", !.max_turns = budget,
                                 !.turn = 0, !.tool_trace = <<>>]]
    /\ UNCHANGED <<instance_vars, loop_vars, executed, last_call, exec_result,
                   guard_vars, schema_vars, query_vars>>

\* lines 303-334 in instance i: the message carries tool calls
SessionCallsTools(i, calls) ==
    /\ sessions[i].pc = "await_model"
    /\ sessions[i].turn < sessions[i].max_turns
    /\ sessions' = [sessions EXCEPT ![i] =
                       [@ EXCEPT !.pc = "dispatch", !.tool_calls = calls,
                                 !.call_ix = 1]]
    /\ UNCHANGED <<instance_vars, loop_vars, executed, last_call, exec_result,
                   guard_vars, schema_vars, query_vars>>

\* lines 321-334 in instance i: the message is the answer; and lines 380-410:
\* the turns are used up
SessionReturns(i) ==
    /\ sessions[i].pc = "await_model"
    /\ sessions' = [sessions EXCEPT ![i] = [@ EXCEPT !.pc = "done"]]
    /\ UNCHANGED <<instance_vars, loop_vars, executed, last_call, exec_result,
                   guard_vars, schema_vars, query_vars>>

\* lines 336-378 in instance i: one iteration of the for loop over tool_calls
SessionDispatch(i, ext) ==
    /\ sessions[i].pc = "dispatch"
    /\ \E s \in {sessions[i]} :
       \E o \in {_execute_tool(s.tool_calls[s.call_ix].name, s.tool_calls[s.call_ix].args,
                               CacheOf(sessions, i), s.schema_cache, ext)} :
          sessions' = [sessions EXCEPT ![i] =
             [distinct_cache |-> o.distinct_cache,
              schema_cache   |-> o.schema_cache,
              max_turns      |-> s.max_turns,
              tool_calls     |-> s.tool_calls,
              tool_trace     |-> TraceWith(s.tool_trace, s.tool_calls[s.call_ix].name,
                                           s.tool_calls[s.call_ix].args, o.result),
              pc             |-> IF ShortCircuit(s.tool_calls[s.call_ix].name, o.result)
                                 THEN "done"
                                 ELSE IF s.call_ix = Len(s.tool_calls)
                                 THEN "await_model" ELSE "dispatch",
              turn           |-> IF ~ShortCircuit(s.tool_calls[s.call_ix].name, o.result)
                                    /\ s.call_ix = Len(s.tool_calls)
                                 THEN s.turn + 1 ELSE s.turn,
              call_ix        |-> IF ~ShortCircuit(s.tool_calls[s.call_ix].name, o.result)
                                    /\ s.call_ix < Len(s.tool_calls)
                                 THEN s.call_ix + 1 ELSE s.call_ix]]
    /\ UNCHANGED <<instance_vars, loop_vars, executed, last_call, exec_result,
                   guard_vars, schema_vars, query_vars>>

NextSessions ==
    \E i \in Sessions :
        \/ \E budget \in SessionBudgets : SessionStart(i, budget)
        \/ \E calls \in SessionToolCalls : SessionCallsTools(i, calls)
        \/ SessionReturns(i)
        \/ \E ext \in SessionExt : SessionDispatch(i, ext)

SpecSessions == Init /\ [][NextSessions]_vars

(***************************************************************************)
(* Properties.                                                             *)
(***************************************************************************)
\* the steps the loop still has before it: the for loop over the turns counts
\* the turns not yet begun (line 301), the for loop of _openai_chat the
\* attempts not yet made (line 415), the for loop over tool_calls the calls
\* of the turn not yet dispatched (line 336)
StepsLeft ==
    CASE pc = "await_model" ->
            (max_turns - turn) * (MaxCallsPerMessage + max_retries) + 1 - attempt
      [] pc = "dispatch" ->
            (max_turns - turn - 1) * (MaxCallsPerMessage + max_retries) + 1
            + (Len(tool_calls) - call_ix + 1)
      [] OTHER -> 0

CommentFree(text) == Strip(StripComments(text))

\* words of a text that are forbidden keywords, in any letter case
ForbiddenWordsIn(text) ==
    {k \in Range(forbidden_keywords) : \E i \in 1..Len(text) : Upper(text[i]) = k}

\* a semicolon that is not the end of the text
InternalSemicolon(text) ==
    \E i \in 1..Len(Strip(text)) - 1 : Strip(text)[i] = ";"

\* C2: every text given to execute_sql by a tool call (run_sql_query,
\* check_table_row_count, get_distinct_values) starts with SELECT, holds no
\* forbidden keyword as a whole word and is a single statement.
C2_ExecutedSqlIsSingleSafeSelect ==
    \A i \in 1..Len(executed) :
        /\ Strip(executed[i]) # <<>>
        /\ Upper(Head(Strip(executed[i]))) = "SELECT"
        /\ ForbiddenWordsIn(executed[i]) = {}
        /\ ~InternalSemicolon(executed[i])

\* the <<table, column>> pairs of the equality and IN filters of a statement
\* that compare a column with a string literal, the table being the
\* schema-qualified table after FROM
TextFilterPairs(sql) ==
    {<<<<Lower(sql[j + 1])>>, <<Lower(WordSuffix(sql[i]))>>>> :
        i \in EqualityFilterMatches(sql) \cup InFilterMatches(sql),
        j \in {k \in FromTableMatches(sql) : k = Min(FromTableMatches(sql))}}

\* C3: whenever run_sql_query passes a statement to execution, every
\* equality or IN filter on a string literal in it has its (table, column)
\* pair in the distinct-value cache of the instance.
C3_EveryTextFilterWasFetched ==
    last_call.name = "run_sql_query" =>
        \A i \in 1..Len(executed) : TextFilterPairs(executed[i]) \subseteq distinct_cache

\* the pairs a must_fetch_distinct_values result names
NamedMissing(result) ==
    {<<<<Lower(result.missing[i].table)>>, <<Lower(result.missing[i].column)>>>> :
        i \in 1..Len(result.missing)}

\* C4: run_sql_query with a statement that filters c = 'literal' or
\* c IN ('literal') on an existing table t returns the
\* must_fetch_distinct_values signal naming (t, c) and executes nothing while
\* no fetch for (t, c) has succeeded on the instance; once the pair has been
\* fetched the gate lets the statement pass.
C4_GateBlocksUntilFetched ==
    (last_call.name = "run_sql_query" /\ last_call.result.error # "table_not_found") =>
        /\ \A pair \in TextFilterPairs(last_call.args.sql) \ distinct_cache :
              /\ last_call.result.error = "must_fetch_distinct_values"
              /\ pair \in NamedMissing(last_call.result)
              /\ executed = <<>>
        /\ (TextFilterPairs(last_call.args.sql) \subseteq distinct_cache
              => last_call.result.error # "must_fetch_distinct_values")

\* C5: the first run_sql_query dispatch that succeeds ends the loop at once:
\* it is the last entry of the trace, the loop is done, the response carries
\* its SQL and result, and no completion call or dispatch follows it, calls
\* listed after it in the same turn included.
C5_FirstSuccessEndsLoop ==
    \A i \in 1..Len(tool_trace) :
        (tool_trace[i].tool = "run_sql_query" /\ tool_trace[i].result.success) =>
            /\ i = Len(tool_trace)
            /\ pc = "done"
            /\ response.returned
            /\ ~response.max_turns_reached
            /\ response.sql_used = tool_trace[i].result.sql_used
            /\ response.sql_result.success
            /\ response.response_text =
                  (IF tool_trace[i].result.data_preview # ""
                   THEN tool_trace[i].result.data_preview ELSE ExecutedSuccessfully)
            /\ response.tool_calls = tool_trace
            /\ response.turns = chat_calls
            /\ chat_calls = turn + 1

\* C5 witness: a successful query returned while a later call of the same
\* assistant message was still waiting
C5_Witness ==
    /\ pc = "done"
    /\ tool_trace # <<>>
    /\ tool_trace[Len(tool_trace)].tool = "run_sql_query"
    /\ tool_trace[Len(tool_trace)].result.success
    /\ call_ix < Len(tool_calls)

\* C6: run_sql_query gives the database no statement that validate_sql
\* finds invalid and then returns sql_validation_failed with the errors; a
\* valid statement is executed as its corrected text when there is one and
\* as given otherwise, and sql_used reports the text executed.
C6_OnlyValidatedSqlRuns ==
    last_call.name = "run_sql_query" =>
        LET sql == last_call.args.sql
            result == last_call.result
        IN  /\ ~validate_sql(sql).is_valid =>
                  /\ executed = <<>>
                  /\ result.error \in {"sql_validation_failed", "table_not_found",
                                       "must_fetch_distinct_values"}
                  /\ result.error = "sql_validation_failed" =>
                        result.issues = validate_sql(sql).errors
            /\ result.error = "sql_validation_failed" => ~validate_sql(sql).is_valid
            /\ executed # <<>> =>
                  /\ validate_sql(sql).is_valid
                  /\ executed = <<IF validate_sql(sql).corrected_sql # NoneText
                                  THEN validate_sql(sql).corrected_sql ELSE sql>>
                  /\ result.sql_used = executed[1]

\* C6 witness: a valid statement was executed as its corrected text
C6_Witness ==
    /\ last_call.name = "run_sql_query"
    /\ executed # <<>>
    /\ validate_sql(last_call.args.sql).corrected_sql # NoneText
    /\ executed[1] # last_call.args.sql

\* the values of all LIMIT clauses of a statement
LimitValues(text) ==
    {IntOf(LimitValueAt(text, i)) : i \in LimitMatches(text)}

\* C7: every statement run_sql_query passes to execution has a LIMIT, and
\* no LIMIT of it exceeds max_limit, wherever its LIMIT clauses stand.
C7_ExecutedSqlHasBoundedLimit ==
    last_call.name = "run_sql_query" =>
        \A i \in 1..Len(executed) :
            /\ LimitValues(CommentFree(executed[i])) # {}
            /\ \A v \in LimitValues(CommentFree(executed[i])) : v <= max_limit

\* the tables a statement names after FROM or JOIN
TablesNamed(text) ==
    {text[i + 1] : i \in {k \in 1..(Len(text) - 1) :
                            /\ Upper(text[k]) \in {"FROM", "JOIN"}
                            /\ text[k + 1] \in TableTokens}}

\* C8: every statement run_sql_query passes to execution names only tables
\* of the schemas prod, staging and intermediate.
C8_ExecutedSqlUsesAllowedSchemas ==
    last_call.name = "run_sql_query" =>
        \A i \in 1..Len(executed) :
            \A t \in TablesNamed(executed[i]) :
                SchemaOf(t) \in {"prod", "staging", "intermediate"}

\* the forbidden keywords validate_sql reported
ReportedKeywords(validation) ==
    {validation.errors[i].arg :
        i \in {k \in 1..Len(validation.errors) :
                 validation.errors[k].kind = "forbidden_keyword"}}

\* C9: a statement that holds a forbidden keyword as a whole word, in any
\* letter case, in its body or inside a comment, is reported invalid with
\* one error per keyword found.
C9_ForbiddenKeywordRejected ==
    (g_validation # NoValidation /\ ForbiddenWordsIn(g_sql) # {}) =>
        /\ ~g_validation.is_valid
        /\ ReportedKeywords(g_validation) = ForbiddenWordsIn(g_sql)
        /\ Cardinality({k \in 1..Len(g_validation.errors) :
                          g_validation.errors[k].kind = "forbidden_keyword"})
              = Cardinality(ForbiddenWordsIn(g_sql))

\* positions of the LIMIT keyword in a text
LimitKeywordAt(text) == {i \in 1..Len(text) : Upper(text[i]) = "LIMIT"}

\* C10: for a valid SELECT statement without a LIMIT clause validate_sql
\* returns a corrected text that is the sanitized statement followed by one
\* LIMIT clause with default_limit, and reports the missing LIMIT as a
\* warning, not as an error.
C10_DefaultLimitAppended ==
    (/\ g_validation # NoValidation
     /\ g_validation.is_valid
     /\ LimitKeywordAt(CommentFree(g_sql)) = {}) =>
        /\ g_validation.corrected_sql # NoneText
        /\ Cardinality(LimitKeywordAt(g_validation.corrected_sql)) = 1
        /\ LimitValues(g_validation.corrected_sql) = {default_limit}
        /\ g_validation.corrected_sql =
              sanitize_sql(StripComments(g_sql)) \o <<"NL", "LIMIT", StrOf(default_limit)>>
        /\ \E i \in 1..Len(g_validation.warnings) :
              g_validation.warnings[i].kind = "no_limit_adding_default"
        /\ g_validation.errors = <<>>

\* the values validate_sql named in a LIMIT error
ReportedLimits(validation) ==
    {IntOf(validation.errors[i].arg) :
        i \in {k \in 1..Len(validation.errors) :
                 validation.errors[k].kind = "limit_exceeds_maximum"}}

\* C11: a SELECT statement with a LIMIT value above max_limit is reported
\* invalid with an error that names that value; a statement whose LIMIT
\* values are all at most max_limit gets no LIMIT error.
C11_LimitOverMaximumRejected ==
    (/\ g_validation # NoValidation
     /\ StartsWithSelect(UpperText(CommentFree(g_sql)))) =>
        /\ \A v \in LimitValues(CommentFree(g_sql)) :
              v > max_limit =>
                 ~g_validation.is_valid /\ v \in ReportedLimits(g_validation)
        /\ (\A v \in LimitValues(CommentFree(g_sql)) : v <= max_limit) =>
              ReportedLimits(g_validation) = {}

ErrorKinds ==
    {"must_start_with_select", "forbidden_keyword", "multiple_statements",
     "limit_exceeds_maximum", "forbidden_schema"}

WarningKinds ==
    {"no_limit_adding_default", "non_production_schema", "pii_pattern", "select_star"}

KindsOf(findings) == {findings[i].kind : i \in 1..Len(findings)}

\* C13: validate_sql reports a statement valid exactly when its error list
\* is empty; the findings of the warning-only checks (non-production schema
\* pattern, PII column name, SELECT *, missing LIMIT) are warnings and never
\* errors; the corrected text is given only when it differs from the input.
C13_ValidIffNoError ==
    g_validation # NoValidation =>
        /\ g_validation.is_valid <=> (g_validation.errors = <<>>)
        /\ KindsOf(g_validation.errors) \subseteq ErrorKinds
        /\ KindsOf(g_validation.warnings) \subseteq WarningKinds
        /\ g_validation.corrected_sql # NoneText =>
              g_validation.corrected_sql # g_sql

\* C13 witness: a statement with three warnings (SELECT *, a non-production
\* schema pattern, no LIMIT) was reported valid and got a corrected text
C13_Witness ==
    /\ g_validation # NoValidation
    /\ g_validation.is_valid
    /\ {"select_star", "non_production_schema", "no_limit_adding_default"}
          \subseteq KindsOf(g_validation.warnings)
    /\ g_validation.corrected_sql # NoneText

\* positions of the semicolons of a text
SemicolonsAt(text) == {i \in 1..Len(text) : text[i] = ";"}

\* C14: a statement whose only semicolon ends it, trailing white space or a
\* newline after that semicolon included, gets no multiple-statement error;
\* a statement with an internal semicolon is sanitized to the text before its
\* first semicolon.
C14_TrailingSemicolonTolerated ==
    g_validation # NoValidation =>
        LET text == StripComments(g_sql)
            semis == SemicolonsAt(text)
        IN  /\ (semis # {} /\ semis = {Len(RStrip(text))}) =>
                  "multiple_statements" \notin KindsOf(g_validation.errors)
            /\ InternalSemicolon(text) =>
                  sanitize_sql(text) = Strip(Take(text, Min(semis) - 1))

\* the pair a get_distinct_values call asks for, as the cache spells it
RequestedPair(call) == <<LowerText(call.args.table), LowerText(call.args.column)>>

\* C15: the distinct-value cache changes only when a get_distinct_values
\* call fetched the values of its pair from the database, and then by
\* exactly that pair; such a fetch always leaves its pair in the cache; a
\* fetch that fails (invalid arguments, database error or timeout) and every
\* other tool call leave the cache as it was; no entry is ever removed.
C15_CacheHoldsExactlyFetchedPairs ==
    [][/\ distinct_cache \subseteq distinct_cache'
       /\ (last_call'.name = "get_distinct_values"
           /\ exec_result' \in {"rows", "empty"})
             => distinct_cache' = distinct_cache \cup {RequestedPair(last_call')}
       /\ ~(last_call'.name = "get_distinct_values"
            /\ exec_result' \in {"rows", "empty"})
             => distinct_cache' = distinct_cache]_vars

\* the trace entries of run_sql_query calls that succeeded
SuccessfulQueries ==
    {i \in 1..Len(tool_trace) :
        tool_trace[i].tool = "run_sql_query" /\ tool_trace[i].result.success}

\* C16: a loop that ended with its turns used up returned the result of a
\* successful run_sql_query when the loop obtained one and the fixed apology
\* otherwise, in both cases with max_turns_reached set and turns equal to
\* the budget.
C16_ExhaustionReturnsResultOrApology ==
    (pc = "done" /\ turn = max_turns) =>
        /\ response.returned
        /\ response.max_turns_reached
        /\ response.turns = max_turns
        /\ SuccessfulQueries # {} =>
              /\ response.sql_result.success
              /\ \E i \in SuccessfulQueries :
                    /\ response.sql_used = tool_trace[i].result.sql_used
                    /\ response.response_text =
                          (IF tool_trace[i].result.data_preview # ""
                           THEN tool_trace[i].result.data_preview
                           ELSE ExecutedSuccessfully)
        /\ SuccessfulQueries = {} => response.response_text = Apology

\* C16 witness: the budget ran out after a query that the database refused,
\* and the apology was returned with that query's SQL
C16_Witness ==
    /\ pc = "done"
    /\ turn = max_turns
    /\ response.response_text = Apology
    /\ response.sql_result.error = "db_error"
    /\ response.sql_used # NoneText

\* a trace entry of a tool call that failed
FailedCall(entry) ==
    entry.result.error # "" \/ (entry.tool = "run_sql_query" /\ ~entry.result.success)

\* C17: a loop with budget N in which every completion response carried tool
\* calls and every tool call failed ends only after exactly N completion
\* calls, with the fixed apology, turns = N and max_turns_reached set.
C17_FailingToolsUseWholeBudget ==
    (/\ pc = "done"
     /\ tool_calls # <<>>
     /\ \A i \in 1..Len(tool_trace) : FailedCall(tool_trace[i])) =>
        /\ chat_calls = max_turns
        /\ turn = max_turns
        /\ response.response_text = Apology
        /\ response.turns = max_turns
        /\ response.max_turns_reached
        /\ Len(tool_trace) >= max_turns

\* C17 witness: a loop with the largest budget whose tool calls all failed
C17_Witness ==
    /\ pc = "done"
    /\ max_turns = MaxTurns
    /\ chat_calls = MaxTurns
    /\ tool_calls # <<>>
    /\ Len(tool_trace) >= MaxTurns
    /\ \A i \in 1..Len(tool_trace) : FailedCall(tool_trace[i])
    /\ response.response_text = Apology

\* the document ids of the retrieve_docs entries of a trace, in call order
RECURSIVE TraceDocIds(_)
TraceDocIds(trace) ==
    IF trace = <<>> THEN <<>>
    ELSE (IF Head(trace).tool = "retrieve_docs" THEN Head(trace).result.docs ELSE <<>>)
         \o TraceDocIds(Tail(trace))

\* the SQL accumulated by the run_sql_query entries of a trace: the text of
\* the latest one that reached execution, None when there is none
AccumulatedSql(trace) ==
    LET ran == {i \in 1..Len(trace) :
                  /\ trace[i].tool = "run_sql_query"
                  /\ trace[i].result.sql_used # NoneText}
    IN  IF ran = {} THEN NoneText
        ELSE trace[CHOOSE i \in ran : \A j \in ran : j <= i].result.sql_used

\* C18: a completion response without tool calls at turn t ends the loop at
\* once with that text and turns = t + 1; sources_used holds the document
\* ids of all earlier retrieve_docs calls in call order, and sql_used the
\* SQL accumulated by the earlier run_sql_query calls, which a later
\* rejected run_sql_query (gate block, validation failure, table not found)
\* does not erase.
C18_AnswerCarriesAccumulatedContext ==
    (pc = "done" /\ tool_calls = <<>>) =>
        /\ response.returned
        /\ response.response_text \in {"answer", TechnicalDifficulties}
        /\ ~response.max_turns_reached
        /\ response.turns = turn + 1
        /\ response.turns = chat_calls
        /\ response.sources_used = TraceDocIds(tool_trace)
        /\ response.sql_used = AccumulatedSql(tool_trace)

\* C19: the trace is the sequence of (tool name, arguments, result) of the
\* tool calls dispatched so far, in dispatch order: every dispatch, whatever
\* its outcome, appends exactly one entry for the call it dispatched with
\* the result _execute_tool gave, no other step of the loop touches the
\* trace, and every AgentResponse returned carries the whole trace.
C19_TraceRecordsEveryDispatch ==
    /\ [](response.returned => response.tool_calls = tool_trace)
    /\ [][/\ pc = "dispatch" =>
               /\ Len(tool_trace') = Len(tool_trace) + 1
               /\ SubSeq(tool_trace', 1, Len(tool_trace)) = tool_trace
               /\ tool_trace'[Len(tool_trace')] =
                      [tool |-> tool_calls[call_ix].name,
                       args |-> tool_calls[call_ix].args,
                       result |-> last_call'.result]
          /\ (pc = "await_model" \/ pc = "done") => tool_trace' = tool_trace]_vars

\* a loop has returned a trace of four entries made in two turns: a call of
\* an unknown tool, a query refused by validation, a gate-blocked query and a
\* successful get_distinct_values
C19_Witness ==
    /\ response.returned
    /\ Len(response.tool_calls) = 4
    /\ response.tool_calls[1].tool = "no_such_tool"
    /\ response.tool_calls[2].result.error = "sql_validation_failed"
    /\ response.tool_calls[3].result.error = "must_fetch_distinct_values"
    /\ response.tool_calls[4].tool = "get_distinct_values"
    /\ response.tool_calls[4].result.error = ""

C21_ProcessQueryNeverRaises ==
    /\ pc # "raised"
    /\ pc = "done" => response.returned /\ response.response_text # ""

\* the dispatch about to be made fails: the call names a tool that does not
\* exist, its handler meets an exception, or the query it hands to the
\* database ends with an execution error or a timeout
DispatchFails ==
    /\ pc = "dispatch"
    /\ \/ tool_calls[call_ix].name \notin ToolNames
       \/ last_call'.result.error = "exception"
       \/ exec_result' = "error"

\* C22: a failing tool call fails only that call: it yields a structured
\* error result, which is appended to the trace and fed back as the tool
\* message of the call; the next call of the turn is dispatched, or the
\* next turn begins when the call was the last of its turn.
C22_FailedCallFailsAlone ==
    [][DispatchFails =>
          /\ last_call'.result.error # ""
          /\ ~last_call'.result.success
          /\ tool_trace' = Append(tool_trace,
                                  [tool |-> tool_calls[call_ix].name,
                                   args |-> tool_calls[call_ix].args,
                                   result |-> last_call'.result])
          /\ tool_messages' = Append(tool_messages,
                                     [tool_call_id |-> <<turn, call_ix>>,
                                      content |-> last_call'.result])
          /\ response' = response
          /\ IF call_ix < Len(tool_calls)
             THEN pc' = "dispatch" /\ call_ix' = call_ix + 1 /\ turn' = turn
             ELSE pc' = "await_model" /\ turn' = turn + 1]_vars

\* C23: every completion call of the loop is made in "must call a tool"
\* mode (tool_choice "required") exactly when it is made on turn 0 of a
\* classification whose force_tool_usage is set, and in free-choice mode
\* (tool_choice "auto") on every later turn and on every turn when the
\* flag is not set.
C23_ToolChoiceRequiredOnFirstTurnOnly ==
    [][(pc = "await_model" /\ turn < max_turns) =>
          /\ (force_tool_usage /\ turn = 0) => tool_choice' = "required"
          /\ ~(force_tool_usage /\ turn = 0) => tool_choice' = "auto"]_vars

\* the second turn of a loop whose classification forces tool usage has made
\* its completion call, in free-choice mode
C23_Witness ==
    /\ force_tool_usage
    /\ turn = 1
    /\ chat_calls = 2
    /\ tool_choice = "auto"

\* C24: process_query routes by intent: follow_up_sql and follow_up_context
\* run the tool loop with a budget of 6 turns, query_with_sql and
\* query_without_sql with a budget of 15, and small_talk, irrelevant and
\* needs_clarification return at once without entering the loop: no
\* completion call of the loop, no tool dispatched, no SQL executed and
\* the distinct-value cache as it was.
C24_RoutingByIntent ==
    /\ [](r_classification.intent \in {"follow_up_sql", "follow_up_context"} =>
             /\ max_turns = 6
             /\ pc \in {"await_model", "dispatch", "done", "raised"})
    /\ [](r_classification.intent \in {"query_with_sql", "query_without_sql"} =>
             /\ max_turns = 15
             /\ pc \in {"await_model", "dispatch", "done", "raised"})
    /\ [](r_classification.intent \in {"small_talk", "irrelevant", "needs_clarification"} =>
             /\ pc = "done"
             /\ response.returned
             /\ response.tool_calls = <<>>
             /\ response.sql_used = NoneText
             /\ chat_calls = 0
             /\ tool_trace = <<>>)
    /\ [][r_classification'.intent \in {"small_talk", "irrelevant", "needs_clarification"} =>
             UNCHANGED <<distinct_cache, schema_cache, executed, last_call, tool_trace,
                         tool_messages>>]_vars

\* a query classified query_with_sql used its whole budget of 15 turns
C24_Witness ==
    /\ r_classification.intent = "query_with_sql"
    /\ pc = "done"
    /\ response.max_turns_reached
    /\ response.turns = 15
    /\ chat_calls = 15
    /\ Len(tool_trace) >= 15

\* the completion call of classify_intent failed or its answer could not be
\* parsed into a classification
ClassifierFailed ==
    \/ r_reply.kind \in {"exception", "text"}
    \/ /\ r_reply.kind = "json"
       /\ \/ r_reply.shape # "dict"
          \/ r_reply.intent \notin IntentTypes
          \/ r_reply.confidence \in {Absent, "high"}
          \/ r_reply.reason = Absent

\* C25: whatever the completion capability does (exception, text that is
\* no JSON, JSON with missing or invalid fields, an intent outside the
\* seven values), the classification classify_intent returns has one of
\* the seven intents, and when the call or the parsing failed it is exactly
\* the result of the keyword-bucket fallback classifier for the query.
C25_ClassificationAlwaysValid ==
    (r_reply # NoReply /\ ~h_context.raised) =>
        /\ ~r_classification.raised
        /\ r_classification.intent \in IntentTypes
        /\ ClassifierFailed => r_classification = _fallback_classification(r_query)
        /\ ~ClassifierFailed => r_classification.intent = r_reply.intent

\* the model answered a data question with an intent outside the seven
\* values and the fallback classified it query_with_sql
C25_Witness ==
    /\ r_query = "how many cases"
    /\ r_reply.kind = "json"
    /\ r_reply.shape = "dict"
    /\ r_reply.intent = "chitchat"
    /\ r_classification.intent = "query_with_sql"
    /\ r_classification.confidence = "0.7"
    /\ r_classification.force_tool_usage

\* C26: for a pure-greeting query, a query with an organizational keyword,
\* or a query with a follow-up phrase marker when prior SQL or chart context
\* exists, classify_intent returns the heuristic classification and does
\* not invoke the completion capability.
C26_FastPathSkipsModel ==
    (/\ r_reply # NoReply
     /\ ~h_context.raised
     /\ _heuristic_classification(r_query, h_context).intent # Absent) =>
        /\ r_llm_calls = 0
        /\ r_classification = _heuristic_classification(r_query, h_context)

\* extract_conversation_context has returned a context for h_history
ContextExtracted == h_context # NoContextYet /\ ~h_context.raised

\* C27: for a history whose latest assistant turn carries the SQL
\* SELECT <dim>, COUNT(*) FROM <schema>.<table> GROUP BY <dim> LIMIT n and
\* the chart ids [k], the extracted context has exactly the one table
\* <schema>.<table>, exactly the one dimension <dim>, and the chart id as
\* the string "k".
C27_ContextOfGroupedQuery ==
    \A dim \in {"a", "district"}, table \in {"prod.t", "staging.t"} :
        (/\ ContextExtracted
         /\ h_history # <<>>
         /\ h_history[Len(h_history)] =
                Message("assistant", Metadata(SqlGrouped(dim, table), <<10>>))) =>
            /\ h_context.last_sql_query = SqlGrouped(dim, table)
            /\ h_context.last_tables_used = <<table>>
            /\ h_context.last_dimensions = <<<<dim>>>>
            /\ h_context.last_chart_ids = <<<<"10">>>>

\* the places of h_history among its most recent 10 turns
Window == {i \in 1..Len(h_history) : i > Len(h_history) - 10}

\* the assistant turns of the window that carry SQL metadata, chart ids,
\* null metadata
SqlTurns ==
    {i \in Window : /\ h_history[i].role = "assistant"
                    /\ h_history[i].metadata.kind = "dict"
                    /\ h_history[i].metadata.sql_used # <<>>}

ChartTurns ==
    {i \in Window : /\ h_history[i].role = "assistant"
                    /\ h_history[i].metadata.kind = "dict"
                    /\ h_history[i].metadata.chart_ids_used # <<>>}

NullTurns ==
    {i \in Window : /\ h_history[i].role = "assistant"
                    /\ h_history[i].metadata.kind = "null"}

Latest(S) == CHOOSE i \in S : \A j \in S : j <= i

\* C28: only the most recent 10 turns are considered: the SQL and the fields
\* derived from it come from the most recent assistant turn of that window
\* with SQL metadata, the chart ids from the most recent assistant turn
\* with chart ids, which may be another turn; user turns and older turns
\* contribute nothing, a field once set is not replaced by an older turn,
\* and no turn older than the two captures is looked at.
C28_ContextFromRecentWindow ==
    /\ ContextExtracted =>
         /\ IF SqlTurns = {}
            THEN /\ h_context.last_sql_query = NoneText
                 /\ h_context.last_tables_used = <<>>
                 /\ h_context.last_dimensions = <<>>
            ELSE LET sql == h_history[Latest(SqlTurns)].metadata.sql_used
                 IN  /\ h_context.last_sql_query = sql
                     /\ h_context.last_tables_used = _extract_tables_from_sql(sql)
                     /\ h_context.last_dimensions = _extract_dimensions_from_sql(sql)
         /\ IF ChartTurns = {}
            THEN h_context.last_chart_ids = <<>>
            ELSE LET ids == h_history[Latest(ChartTurns)].metadata.chart_ids_used
                 IN  h_context.last_chart_ids = [k \in 1..Len(ids) |-> <<StrOf(ids[k])>>]
    /\ (h_context # NoContextYet /\ h_context.raised) =>
         \E j \in NullTurns :
            ~(\E i \in SqlTurns : i > j) \/ ~(\E i \in ChartTurns : i > j)
    /\ (ContextExtracted /\ NullTurns # {}) =>
         \A j \in NullTurns : (\E i \in SqlTurns : i > j) /\ (\E i \in ChartTurns : i > j)

\* a history of 12 turns whose second turn, outside the window, is an answer
\* with SQL and whose third turn, the oldest of the window, is an answer with
\* chart ids: the context has the chart ids and no SQL
C28_Witness ==
    /\ ContextExtracted
    /\ Len(h_history) = 12
    /\ h_history[2].role = "assistant"
    /\ h_history[2].metadata.sql_used # <<>>
    /\ h_history[3] = Message("assistant", Metadata(<<>>, <<1, 50>>))
    /\ h_context.last_sql_query = NoneText
    /\ h_context.last_chart_ids = <<<<"1">>, <<"50">>>>
    /\ h_context.last_response_type = "metadata_answer"

\* the schema index reports a table as existing in the call s_call: it held
\* the table, or the database holds it and answered the lookup
SeenByIndex(table) ==
    \/ table \in Range(s_call.listing)
    \/ s_call.live /\ table \in s_db

\* the level of a table among the candidates of one base name: 1 for a schema
\* that starts with prod, 2 for another schema that contains prod, 3 otherwise
CandidateLevel(table) ==
    CASE table \in {"prod.x", "prod_gender.x"} -> 1
      [] table = "dev_prod.x"                  -> 2
      [] OTHER                                 -> 3

PlacesOf(table) ==
    {i \in 1..Len(s_result.tables) : s_result.tables[i].table = table}

\* C30: when the schema index lists staging.x and prod.x, both matching the
\* keyword, and the limit lets list_tables_by_keyword return one of them,
\* prod.x is returned, and ahead of staging.x when both are.
C30_KeywordSearchRanksProdFirst ==
    (/\ s_call.name = "list_tables_by_keyword"
     /\ {"prod.x", "staging.x"} \subseteq Range(s_call.listing)
     /\ NormalKeyword(s_call.keyword) \in {"x", "district"}
     /\ PlacesOf("prod.x") \cup PlacesOf("staging.x") # {})
    => /\ PlacesOf("prod.x") # {}
       /\ \A i \in PlacesOf("prod.x"), j \in PlacesOf("staging.x") : i < j

\* C31: list_tables_by_keyword returns only tables of the schemas prod,
\* staging and intermediate, whatever the schema index holds; it returns at
\* most limit tables, and none for an empty keyword.
C31_KeywordSearchCleanSchemasOnly ==
    s_call.name = "list_tables_by_keyword" =>
        /\ \A i \in 1..Len(s_result.tables) :
              /\ s_result.tables[i].table \in
                    {"prod.x", "staging.x", "staging.y"}
              /\ s_result.tables[i].table \in Range(s_call.listing)
        /\ Len(s_result.tables) <= s_call.limit
        /\ s_call.keyword = "" => s_result.tables = <<>>

\* the index lists dev_prod.x and prod_gender.x ahead of staging.x, all
\* three matching the keyword, and the search returns staging.x alone
C31_Witness ==
    /\ s_call.name = "list_tables_by_keyword"
    /\ s_call.keyword = "x"
    /\ s_call.limit = 2
    /\ s_call.listing = <<"dev_prod.x", "prod_gender.x", "staging.x">>
    /\ s_result.tables = <<[table |-> "staging.x",
                            columns |-> <<"id", "district", "notes">>]>>

\* the most recent call is run_sql_query with a statement SELECT c FROM t ...
\* whose column c is not a column of t, t being a table the index holds
SelectsMissingColumn ==
    /\ last_call.name = "run_sql_query"
    /\ Len(last_call.args.sql) >= 4
    /\ last_call.args.sql[1] = "SELECT"
    /\ last_call.args.sql[2] \in IdentTokens
    /\ last_call.args.sql[3] = "FROM"
    /\ last_call.args.sql[4] \in schema_cache
    /\ Lower(last_call.args.sql[2]) \notin DbColumns(last_call.args.sql[4])

\* the tables of the index that have the column the statement selects
AlternateTables ==
    {t \in schema_cache : Lower(last_call.args.sql[2]) \in DbColumns(t)}

\* C32: a run_sql_query statement that selects a column its FROM table does
\* not have is rewritten, before the gate and validation, to a table of the
\* index that has the column when there is one: the statement executed names
\* that table.
C32_MissingColumnRewritten ==
    (SelectsMissingColumn /\ AlternateTables # {} /\ executed # <<>>)
    => executed[1][4] \in AlternateTables

\* the pair get_distinct_values(prod.t, a) puts in the cache, which is the
\* pair the filter of SqlFiltered needs
FilteredPair == <<<<"prod.t">>, <<"a">>>>

\* C33: the tool calls of one turn are dispatched one at a time in the
\* order of the assistant message, each on the cache the one before left:
\* get_distinct_values(prod.t, a) followed in the same turn by the query
\* that filters on prod.t.a is not blocked by the gate, and in the reverse
\* order, on a cache without the pair, the query is blocked.
C33_CallsOfATurnRunInOrder ==
    [][(pc = "dispatch" /\ tool_trace' # tool_trace) =>
         /\ last_call'.name = tool_calls[call_ix].name
         /\ last_call'.args = tool_calls[call_ix].args
         /\ tool_calls' = tool_calls
         /\ Len(tool_trace') = Len(tool_trace) + 1
         /\ \/ pc' = "dispatch" /\ call_ix' = call_ix + 1 /\ turn' = turn
            \/ pc' = "await_model" /\ call_ix = Len(tool_calls)
            \/ pc' = "done" /\ last_call'.result.success
         /\ (tool_calls[call_ix] = CallDistinct) => FilteredPair \in distinct_cache'
         /\ (tool_calls[call_ix] = CallFiltered /\ "prod.t" \in schema_cache') =>
               (last_call'.result.error = "must_fetch_distinct_values"
                  <=> FilteredPair \notin distinct_cache)
         /\ (tool_calls = <<CallDistinct, CallFiltered>> /\ call_ix = 2) =>
               last_call'.result.error # "must_fetch_distinct_values"
         /\ (tool_calls = <<CallFiltered, CallDistinct>> /\ call_ix = 1
             /\ "prod.t" \in schema_cache' /\ FilteredPair \notin distinct_cache) =>
               /\ last_call'.result.error = "must_fetch_distinct_values"
               /\ executed' = <<>>
               /\ pc' = "dispatch"
    ]_vars

\* the first turn of the first query carried get_distinct_values(prod.t, a)
\* and then the filtering query, and the query was executed
C33_Witness ==
    /\ tool_calls = <<CallDistinct, CallFiltered>>
    /\ Len(tool_trace) = 2
    /\ tool_trace[1].tool = "get_distinct_values"
    /\ tool_trace[2].tool = "run_sql_query"
    /\ tool_trace[2].result.success
    /\ executed # <<>>
    /\ pc = "done"

\* the entries of the trace of instance i that are the filtering query and
\* the fetches of instance i that precede entry k of its trace
FilteredEntries(i) ==
    {k \in 1..Len(sessions[i].tool_trace) :
        /\ sessions[i].tool_trace[k].tool = "run_sql_query"
        /\ sessions[i].tool_trace[k].args = CallFiltered.args}

OwnFetchesBefore(i, k) ==
    {n \in 1..(k - 1) : sessions[i].tool_trace[n].tool = "get_distinct_values"}

\* C34: two instances whose loops interleave share no mutable state: the gate
\* of an instance blocks the filtering query exactly when that instance has
\* not fetched the distinct values itself, whatever the other instance
\* fetched; the trace of an instance holds its own calls only, its turn
\* count stays within its own budget, and a step of one instance leaves the
\* cache, the trace and the turn count of the other as they were.
C34_SessionsShareNoState ==
    /\ [](\A i \in Sessions :
            /\ \A k \in FilteredEntries(i) :
                  (sessions[i].tool_trace[k].result.error = "must_fetch_distinct_values")
                     <=> OwnFetchesBefore(i, k) = {}
            /\ (sessions[i].distinct_cache # {}) =>
                  \E n \in 1..Len(sessions[i].tool_trace) :
                     sessions[i].tool_trace[n].tool = "get_distinct_values"
            /\ sessions[i].turn <= sessions[i].max_turns
            /\ Len(sessions[i].tool_trace) <= 2 * sessions[i].max_turns)
    /\ [][\E i \in Sessions :
            \A j \in Sessions \ {i} : sessions'[j] = sessions[j]]_vars

\* s1 has fetched the distinct values of prod.t.a and run the filtering
\* query; s2, running at the same time, had its filtering query blocked
C34_Witness ==
    /\ sessions["s1"].distinct_cache = {FilteredPair}
    /\ \E k \in FilteredEntries("s1") : sessions["s1"].tool_trace[k].result.success
    /\ sessions["s2"].pc = "await_model"
    /\ sessions["s2"].distinct_cache = {}
    /\ Len(sessions["s2"].tool_trace) = 1
    /\ sessions["s2"].tool_trace[1].result.error = "must_fetch_distinct_values"

\* the arguments of the most recent tool call lack a field the declared
\* schema of the tool requires, which is also what a payload that is not
\* JSON is turned into (lines 340-344: args = {})
PayloadMissesRequired ==
    \/ last_call.name = "retrieve_docs" /\ last_call.args.query = <<>>
    \/ last_call.name = "run_sql_query" /\ last_call.args.sql = <<>>
    \/ last_call.name = "get_distinct_values"
       /\ (last_call.args.table = <<>> \/ last_call.args.column = <<>>)
    \/ last_call.name = "check_table_row_count" /\ last_call.args.table = <<>>

\* C35: a tool call whose arguments do not satisfy the declared schema of
\* the tool is answered with an error result, and neither the database nor
\* the vector store is reached.
C35_InvalidPayloadRejected ==
    PayloadMissesRequired =>
        /\ last_call.result.error # ""
        /\ executed = <<>>
        /\ last_call.result.docs = <<>>

\* the first table named after FROM in a statement of the loop's calls
FirstFromTable(sql) ==
    sql[1 + CHOOSE i \in 1..(Len(sql) - 1) :
               /\ sql[i] = "FROM" /\ sql[i + 1] \in TableTokens
               /\ \A j \in 1..(i - 1) : sql[j] # "FROM"]

\* C36: when the first table after FROM of a run_sql_query call is not in the
\* schema index and the index cannot find it, the result is the error
\* table_not_found naming that table; nothing is validated or executed, the
\* distinct-value cache is as before, and the loop goes on with the result
\* appended as a tool message.
C36_MissingTableReported ==
    [][(/\ pc = "dispatch"
        /\ tool_trace' # tool_trace
        /\ tool_calls[call_ix].name = "run_sql_query"
        /\ FirstFromTable(tool_calls[call_ix].args.sql) \notin schema_cache')
       => /\ last_call'.result.error = "table_not_found"
          /\ last_call'.result.missing_table = FirstFromTable(tool_calls[call_ix].args.sql)
          /\ last_call'.result.issues = <<>>
          /\ last_call'.result.sql_used = NoneText
          /\ executed' = <<>>
          /\ distinct_cache' = distinct_cache
          /\ response' = response
          /\ (pc' = "dispatch" \/ pc' = "await_model")
          /\ tool_messages' = Append(tool_messages,
                                     [tool_call_id |-> <<turn, call_ix>>,
                                      content |-> last_call'.result])
    ]_vars

\* a statement with a forbidden keyword named a table the index does not
\* hold: table_not_found was returned, not a validation error, and the
\* result is the newest tool message
C36_Witness ==
    /\ last_call.name = "run_sql_query"
    /\ last_call.args.sql = SqlForbidden
    /\ last_call.result.error = "table_not_found"
    /\ last_call.result.missing_table = "prod.t"
    /\ "prod.t" \notin schema_cache
    /\ tool_messages # <<>>
    /\ tool_messages[Len(tool_messages)].content = last_call.result
    /\ pc = "await_model"

\* C37: the turns are used up only in executions in which no run_sql_query
\* succeeded: while the loop runs, and in every response that reports
\* max_turns_reached, the recorded last SQL result is not a success, and
\* that response carries the apology.
C37_ExhaustionOnlyWithoutSuccess ==
    /\ (pc = "await_model" \/ pc = "dispatch") => ~last_sql_result.success
    /\ (response # NoResponse /\ response.max_turns_reached) =>
          /\ ~response.sql_result.success
          /\ response.response_text = Apology
          /\ \A k \in 1..Len(response.tool_calls) :
                ~(response.tool_calls[k].tool = "run_sql_query"
                  /\ response.tool_calls[k].result.success)

\* the turns were used up after a query that the database refused
C37_Witness ==
    /\ pc = "done"
    /\ response.max_turns_reached
    /\ response.response_text = Apology
    /\ response.sql_result.error = "db_error"
    /\ response.turns = 2

\* C38: the turns entry of every response the loop returns is the number of
\* _openai_chat invocations of that loop: the turn index plus one for an
\* answer or a successful query, max_turns when the turns are used up; it
\* lies between 1 and max_turns.
C38_TurnsCountChatCalls ==
    (pc = "done" /\ response # NoResponse) =>
        /\ response.turns = chat_calls
        /\ response.turns >= 1
        /\ response.turns <= max_turns
        /\ IF response.max_turns_reached
           THEN response.turns = max_turns /\ turn = max_turns
           ELSE response.turns = turn + 1

\* a query succeeded in the second of two turns: two invocations, turns = 2,
\* the budget not reported as used up
C38_Witness ==
    /\ pc = "done"
    /\ response # NoResponse
    /\ ~response.max_turns_reached
    /\ response.sql_result.success
    /\ response.turns = 2
    /\ chat_calls = 2
    /\ turn = 1

\* the assistant records of messages that carry tool calls
CallingRecords ==
    {p \in 1..Len(messages) :
        messages[p].role = "assistant" /\ messages[p].tool_call_ids # <<>>}

\* the record at place p is answered: one tool message for each of its calls
\* follows it, with the ids in the order of the calls, and then comes the
\* next assistant record or the end of the list
Answered(p) ==
    LET ids == messages[p].tool_call_ids IN
    /\ Len(messages) >= p + Len(ids)
    /\ \A k \in 1..Len(ids) :
          /\ messages[p + k].role = "tool"
          /\ messages[p + k].tool_call_id = ids[k]
    /\ Len(messages) > p + Len(ids) => messages[p + Len(ids) + 1].role = "assistant"

\* C39: when the completion capability is called on a turn after the first,
\* every assistant record with tool calls is followed at once by exactly one
\* tool message for each of its calls, with the same ids in the same order;
\* no id is answered twice; and while a loop runs messages only grows at
\* its end.
C39_ToolMessagesAnswerEveryCall ==
    /\ []((pc = "await_model" /\ turn > 0) =>
            /\ CallingRecords # {}
            /\ \A p \in CallingRecords : Answered(p)
            /\ \A p \in 1..Len(messages), q \in 1..Len(messages) :
                  (p # q /\ messages[p].role = "tool" /\ messages[q].role = "tool")
                     => messages[p].tool_call_id # messages[q].tool_call_id)
    /\ [][pc # "idle" =>
            /\ Len(messages') >= Len(messages)
            /\ SubSeq(messages', 1, Len(messages)) = messages]_vars

\* the second turn is about to call the completion capability: the record of
\* the first turn carried two calls and two tool messages follow it in order
C39_Witness ==
    /\ pc = "await_model"
    /\ turn = 1
    /\ Len(messages) = 3
    /\ messages[1].tool_call_ids = <<<<0, 1>>, <<0, 2>>>>
    /\ messages[2].tool_call_id = <<0, 1>>
    /\ messages[3].tool_call_id = <<0, 2>>

====
